---- MODULE Spec2Model ----
(***************************************************************************)
(* Model of the order-history scraper: main -> handleLogin -> scrapeOrders *)
(* (src/src/index.ts) together with the stage functions it calls           *)
(* (login.ts, auth.ts, navigation.ts, extraction.ts, validators.ts).       *)
(* The page driver, the prompts and the site are the environment: every    *)
(* observation a driver call returns is drawn with \E from a small set.    *)
(***************************************************************************)
EXTENDS Integers, Sequences, FiniteSets, TLC

(***************************************************************************)
(* Strings: JavaScript's includes, toLowerCase, trim, startsWith.          *)
(***************************************************************************)
UpperChars == "ABCDEFGHIJKLMNOPQRSTUVWXYZ"
LowerChars == "abcdefghijklmnopqrstuvwxyz"
DigitChars == "0123456789"

CharAt(s, i) == SubSeq(s, i, i)

IsCharOf(c, alphabet) == \E k \in 1..Len(alphabet) : CharAt(alphabet, k) = c

UpperSet == {CharAt(UpperChars, k) : k \in 1..Len(UpperChars)}

LowerMap ==
    [c \in UpperSet |-> CharAt(LowerChars, CHOOSE k \in 1..Len(UpperChars) : CharAt(UpperChars, k) = c)]

LowerChar(c) == IF c \in UpperSet THEN LowerMap[c] ELSE c

RECURSIVE toLowerCase(_)
toLowerCase(s) ==
    IF Len(s) = 0 THEN ""
    ELSE LowerChar(CharAt(s, 1)) \o toLowerCase(SubSeq(s, 2, Len(s)))

includes(s, sub) ==
    \E i \in 0..(Len(s) - Len(sub)) : SubSeq(s, i + 1, i + Len(sub)) = sub

startsWith(s, pre) == Len(s) >= Len(pre) /\ SubSeq(s, 1, Len(pre)) = pre

RECURSIVE trimStart(_)
trimStart(s) ==
    IF Len(s) > 0 /\ CharAt(s, 1) = " " THEN trimStart(SubSeq(s, 2, Len(s))) ELSE s

RECURSIVE trimEnd(_)
trimEnd(s) ==
    IF Len(s) > 0 /\ CharAt(s, Len(s)) = " " THEN trimEnd(SubSeq(s, 1, Len(s) - 1)) ELSE s

trim(s) == trimEnd(trimStart(s))

\* /^\d{10}$/.test(input)
IsTenDigits(s) == Len(s) = 10 /\ \A i \in 1..Len(s) : IsCharOf(CharAt(s, i), DigitChars)

(***************************************************************************)
(* validators.ts                                                           *)
(***************************************************************************)
validateCredentials(input) ==
    IF includes(input, "@") /\ includes(input, ".com")
    THEN [isValid |-> TRUE, type |-> "email"]
    ELSE IF IsTenDigits(input)
         THEN [isValid |-> TRUE, type |-> "phone"]
         ELSE [isValid |-> FALSE, type |-> "unknown"]

validatePassword(password) == Len(trim(password)) > 0

(***************************************************************************)
(* config.ts: the selectors and URLs the model names.                      *)
(***************************************************************************)
EMAIL_FIELD == "#ap_email"
CONTINUE_BUTTON == "#continue"
PASSWORD_FIELD == "#ap_password"
SIGN_IN_BUTTON == "#signInSubmit"
INVALID_MOBILE_ERROR == ".a-alert-content:has-text(Invalid mobile number)"
ALERT_CONTENT == ".a-alert-content"
ERROR_CONTAINER == ".a-alert-content, .a-box-inner .a-alert-container"
AUTH_WORKFLOW == "#ap_password, #ap_email, .auth-workflow"
INCORRECT_PASSWORD_ALERT == ".a-alert-content:has-text(Your password is incorrect)"
LOGIN_URL == "https://www.amazon.in/ap/signin?openid.pape.max_auth_age=0"
ORDER_HISTORY_URL == "https://www.amazon.in/gp/css/order-history"
BASE_URL == "https://www.amazon.in"

(***************************************************************************)
(* Driver operations.  A stage function yields the list of driver calls it *)
(* made and its return value; a call that throws ends the list there.      *)
(***************************************************************************)
Op(kind, target, value) == <<kind, target, value>>

NoAlert == "<no alert>"

Result(ok, calls) == [ok |-> ok, ops |-> calls]

\* Variant of Caught whose catch block reports success.
CaughtAsSuccess(r, throwAt) ==
    IF throwAt \in 1..Len(r.ops)
    THEN Result(TRUE, SubSeq(r.ops, 1, throwAt))
    ELSE r

\* try { ... } catch (error) { return false; } around a whole stage function:
\* the throwAt-th driver call throws (0: none does).
Caught(r, throwAt) ==
    IF throwAt \in 1..Len(r.ops)
    THEN Result(FALSE, SubSeq(r.ops, 1, throwAt))
    ELSE r

Bool(b) == IF b THEN "true" ELSE "false"

(***************************************************************************)
(* What a driver call can see of the page at one moment.                   *)
(*   url, title, body : strings;  alert : the text of the visible alert    *)
(*   box or NoAlert;  vis : the selectors that match a visible element.    *)
(***************************************************************************)
Snapshot(href, title, vis, alert, body) ==
    [url |-> href, title |-> title, vis |-> vis, alert |-> alert, body |-> body]

\* page.isVisible('.a-alert-content:has-text("...")'): the alert box is
\* visible and its text contains the words, letter case ignored.
AlertHasText(s, words) ==
    s.alert # NoAlert /\ includes(toLowerCase(s.alert), toLowerCase(words))

\* page.isVisible(SELECTORS.LOGIN.ALERT_CONTENT) / ERROR_CONTAINER
AlertVisible(s) == s.alert # NoAlert

\* page.isVisible('a, b, c')
AnyVisible(s, parts) == parts \cap s.vis # {}

AUTH_WORKFLOW_PARTS == {PASSWORD_FIELD, EMAIL_FIELD, ".auth-workflow"}
HOME_PARTS == {"#nav-logo", "#navbar"}

MFA_URL == "https://www.amazon.in/ap/mfa?ie=UTF8"
HOME_URL == "https://www.amazon.in/?ref_=nav_signin"
SIGNIN_POST_URL == "https://www.amazon.in/ap/signin"

MFA_SELECTORS ==
    << "#auth-mfa-otpcode", ".auth-mfa-form", "#auth-mfa-remember-device",
       "input[name=otpCode]", "form:has-text(Two-Step Verification)",
       "form:has-text(Two-Factor Authentication)", "form:has-text(Enter the OTP)",
       "#auth-mfa-form", "[data-a-target=mfa-otp-field]",
       "input[placeholder*=verification]", "input[type=tel]" >>

OTP_TEXT_INDICATORS ==
    << "verification code", "two-step verification", "two-factor authentication",
       "security code", "enter the code", "otp", "one-time password",
       "authentication code", "mobile number we have on record", "enter the otp",
       "sent to your mobile" >>

OTP_INPUT_SELECTORS ==
    << "#auth-mfa-otpcode", "input[name=otpCode]", "input[id*=mfa]", "input[id*=otp]",
       "input[name*=mfa]", "input[name*=otp]", "input[placeholder*=code]",
       "[data-a-target=mfa-otp-field]", "input[type=tel]", "input[type=text]",
       "input.a-input-text" >>

SUBMIT_BUTTON_SELECTORS ==
    << "#auth-signin-button", "button[type=submit]", "input[type=submit]",
       "button:has-text(Verify)", "button:has-text(Submit)", "button:has-text(Continue)",
       ".a-button-input", "[aria-labelledby*=submit]", "form .a-button-primary",
       "input.a-button-input" >>

\* for (const selector of list) { if (await page.isVisible(selector)) ... break }
\* the index of the first visible selector, 0 when none is.
FirstVisible(s, list) ==
    IF \E i \in 1..Len(list) : list[i] \in s.vis
    THEN CHOOSE i \in 1..Len(list) : list[i] \in s.vis /\ \A j \in 1..(i - 1) : list[j] \notin s.vis
    ELSE 0

\* the isVisible calls the loop makes: every selector up to the first visible one
ProbeOps(s, list) ==
    LET k == FirstVisible(s, list)
        n == IF k = 0 THEN Len(list) ELSE k
    IN  [i \in 1..n |-> Op("isVisible", list[i], Bool(list[i] \in s.vis))]

(***************************************************************************)
(* login.ts: enterUsername                                                 *)
(***************************************************************************)
\* Variant of UsernameErrorWords that does not know the word "problem".
UsernameErrorWordsFewer(errorText) ==
    \/ includes(toLowerCase(errorText), "find")
    \/ includes(toLowerCase(errorText), "cannot")
    \/ includes(toLowerCase(errorText), "invalid")

UsernameErrorWords(errorText) ==
    \/ includes(toLowerCase(errorText), "find")
    \/ includes(toLowerCase(errorText), "cannot")
    \/ includes(toLowerCase(errorText), "problem")
    \/ includes(toLowerCase(errorText), "invalid")

\* pre: the page when the function starts; post: the page after the click.
enterUsernameBody(username, pre, post) ==
    LET start == << Op("screenshot", "login-page-state.png", ""),
                    Op("isVisible", INVALID_MOBILE_ERROR,
                       Bool(AlertHasText(pre, "Invalid mobile number"))) >>
        submit == start \o
                  << Op("fill", EMAIL_FIELD, username),
                     Op("click", CONTINUE_BUTTON, ""),
                     Op("waitForTimeout", "ELEMENT_WAIT", ""),
                     Op("isVisible", INVALID_MOBILE_ERROR,
                        Bool(AlertHasText(post, "Invalid mobile number"))) >>
        alertCheck == submit \o << Op("isVisible", ALERT_CONTENT, Bool(AlertVisible(post))) >>
        alertRead == alertCheck \o << Op("textContent", ALERT_CONTENT, post.alert) >>
        passwordCheck == << Op("isVisible", PASSWORD_FIELD, Bool(PASSWORD_FIELD \in post.vis)) >>
    IN  IF AlertHasText(pre, "Invalid mobile number")
        THEN Result(FALSE, start \o << Op("screenshot", "invalid-mobile-error.png", "") >>)
        ELSE IF AlertHasText(post, "Invalid mobile number")
        THEN Result(FALSE, submit \o << Op("screenshot", "invalid-mobile-error.png", "") >>)
        ELSE IF AlertVisible(post) /\ UsernameErrorWords(post.alert)
        THEN Result(FALSE, alertRead \o << Op("screenshot", "username-error.png", "") >>)
        ELSE IF AlertVisible(post)
        THEN Result(PASSWORD_FIELD \in post.vis, alertRead \o passwordCheck)
        ELSE Result(PASSWORD_FIELD \in post.vis, alertCheck \o passwordCheck)

enterUsername(username, pre, post, throwAt) ==
    Caught(enterUsernameBody(username, pre, post), throwAt)

(***************************************************************************)
(* auth.ts: isMFARequired                                                  *)
(***************************************************************************)
BodyHasIndicator(body) ==
    \E i \in 1..Len(OTP_TEXT_INDICATORS) : includes(toLowerCase(body), OTP_TEXT_INDICATORS[i])

\* Variant of isMFARequiredBody that looks at the page elements and the body
\* text on every address.
isMFARequiredAnyAddress(s) ==
    LET shot == << Op("screenshot", "possible-otp-page.png", "") >>
        titled == shot \o << Op("title", "", s.title) >>
        probed == titled \o ProbeOps(s, MFA_SELECTORS)
        read == probed \o << Op("textContent", "body", s.body) >>
    IN  IF includes(s.url, "/ap/mfa")
        THEN Result(TRUE, shot)
        ELSE IF includes(s.title, "Verification") \/ includes(s.title, "OTP")
        THEN Result(TRUE, titled)
        ELSE IF FirstVisible(s, MFA_SELECTORS) # 0
        THEN Result(TRUE, probed)
        ELSE Result(s.body # "" /\ BodyHasIndicator(s.body), read)

isMFARequiredBody(s) ==
    LET shot == << Op("screenshot", "possible-otp-page.png", "") >>
        titled == shot \o << Op("title", "", s.title) >>
        probed == titled \o ProbeOps(s, MFA_SELECTORS)
        read == probed \o << Op("textContent", "body", s.body) >>
    IN  IF includes(s.url, "/ap/mfa")
        THEN Result(TRUE, shot)
        ELSE IF includes(s.title, "Verification") \/ includes(s.title, "OTP")
        THEN Result(TRUE, titled)
        ELSE IF includes(s.url, "/ap/signin") /\ includes(s.url, "openid.pape.max_auth_age=0")
        THEN IF FirstVisible(s, MFA_SELECTORS) # 0
             THEN Result(TRUE, probed)
             ELSE Result(s.body # "" /\ BodyHasIndicator(s.body), read)
        ELSE Result(FALSE, titled)

isMFARequired(s, throwAt) == Caught(isMFARequiredBody(s), throwAt)

(***************************************************************************)
(* login.ts: enterPassword                                                 *)
(***************************************************************************)
\* Variant of OtpRelatedWords that knows only two of the four phrases.
CodeOrVerificationOnly(errorText) ==
    \/ includes(toLowerCase(errorText), "code")
    \/ includes(toLowerCase(errorText), "verification")

OtpRelatedWords(errorText) ==
    \/ includes(toLowerCase(errorText), "code")
    \/ includes(toLowerCase(errorText), "verification")
    \/ includes(toLowerCase(errorText), "otp")
    \/ includes(toLowerCase(errorText), "wait 60 seconds")

OnLoginUrl(currentUrl) == includes(currentUrl, "/ap/signin") \/ includes(currentUrl, "/ap/password")

\* Variant of NavigationCheck that awaits each wait before the next call.
NavigationCheckAwaited(race) ==
    << Op("waitForNavigation", "load", ""),
       Op("waitForSelector", "#nav-logo, #navbar, #nav-belt, #nav-main", ""),
       Op("race", "", race) >>

\* const navigationCheck = Promise.race([page.waitForNavigation(...).then(...),
\* page.waitForSelector(...).then(...), new Promise(... setTimeout ...)]);
\* const result = await navigationCheck;
\* Both driver calls are made while the array is built and their promises are
\* handed to Promise.race unawaited ("started"); "race" is the await of the race.
NavigationCheck(race) ==
    << Op("waitForNavigation", "load", "started"),
       Op("waitForSelector", "#nav-logo, #navbar, #nav-belt, #nav-main", "started"),
       Op("race", "", race) >>

\* The driver calls of a transcript that are certainly still in flight when
\* its j-th entry starts: those started unawaited before it whose race has
\* not been awaited yet.  (The loser of a race is not cancelled and may stay
\* pending during later calls as well; that is not counted here.)
InFlight(transcript, j) ==
    { i \in 1..(j - 1) : /\ transcript[i][3] = "started"
                         /\ \A k \in (i + 1)..(j - 1) : transcript[k][1] # "race" }

RaceOutcomes == {"navigation-event", "logged-in-element", "timeout", "rejected"}

\* a: the page after the sign-in click; mfaThrow: the call of isMFARequired
\* that throws (0: none); race: how Promise.race settles; b: the page after it.
enterPasswordBody(password, a, mfaThrow, race, b) ==
    LET mfa == isMFARequired(a, mfaThrow)
        submit == << Op("fill", PASSWORD_FIELD, password),
                     Op("click", SIGN_IN_BUTTON, ""),
                     Op("waitForTimeout", "ELEMENT_WAIT", ""),
                     Op("screenshot", "after-password-submit.png", "") >> \o mfa.ops
        incorrect == AlertHasText(a, "Your password is incorrect")
        wrongCheck == submit \o << Op("isVisible", INCORRECT_PASSWORD_ALERT, Bool(incorrect)) >>
        errorCheck == wrongCheck \o << Op("isVisible", ERROR_CONTAINER, Bool(AlertVisible(a))) >>
        errorRead == errorCheck \o << Op("textContent", ERROR_CONTAINER, a.alert) >>
        preNav == errorCheck \o << Op("screenshot", "pre-navigation-check.png", "") >>
        raced == preNav \o NavigationCheck(race)
        settled == raced \o << Op("screenshot", "post-navigation-check.png", ""),
                               Op("isVisible", AUTH_WORKFLOW, Bool(AnyVisible(b, AUTH_WORKFLOW_PARTS))) >>
        rescued == raced \o << Op("isVisible", "#nav-logo, #navbar", Bool(AnyVisible(b, HOME_PARTS))) >>
    IN  IF mfa.ok
        THEN Result(TRUE, submit)
        ELSE IF incorrect
        THEN Result(FALSE, wrongCheck \o << Op("screenshot", "incorrect-password-error.png", "") >>)
        ELSE IF AlertVisible(a)
        THEN Result(OtpRelatedWords(a.alert), errorRead)
        ELSE IF ~OnLoginUrl(a.url)
        THEN Result(TRUE, preNav)
        ELSE IF race = "rejected"
        THEN Result(AnyVisible(b, HOME_PARTS), rescued)
        ELSE IF AnyVisible(b, AUTH_WORKFLOW_PARTS)
        THEN Result(FALSE, settled)
        ELSE Result(~OnLoginUrl(b.url), settled)

enterPassword(password, a, mfaThrow, race, b, throwAt) ==
    Caught(enterPasswordBody(password, a, mfaThrow, race, b), throwAt)

(***************************************************************************)
(* auth.ts: submitMFACode                                                  *)
(***************************************************************************)
\* Variant of submitMFACodeBody that does not let a visible alert decide.
submitMFACodeIgnoringAlert(code, s, navigated, after, mfaThrow) ==
    LET inputAt == FirstVisible(s, OTP_INPUT_SELECTORS)
        buttonAt == FirstVisible(s, SUBMIT_BUTTON_SELECTORS)
        findInput == << Op("screenshot", "otp-page.png", "") >> \o ProbeOps(s, OTP_INPUT_SELECTORS)
        filled == findInput \o << Op("fill", OTP_INPUT_SELECTORS[inputAt], ""),
                                 Op("fill", OTP_INPUT_SELECTORS[inputAt], code) >>
        findButton == filled \o ProbeOps(s, SUBMIT_BUTTON_SELECTORS)
        clicked == findButton \o << Op("click", SUBMIT_BUTTON_SELECTORS[buttonAt], ""),
                                    Op("waitForNavigation", "load", Bool(navigated)) >>
        still == isMFARequired(after, mfaThrow)
        checked == clicked \o << Op("screenshot", "after-otp-submission.png", "") >> \o still.ops
                           \o << Op("isMFARequired", "", Bool(still.ok)),
                                 Op("isVisible", ERROR_CONTAINER, Bool(AlertVisible(after))) >>
    IN  IF inputAt = 0
        THEN Result(FALSE, findInput)
        ELSE IF buttonAt = 0
        THEN Result(FALSE, findButton)
        ELSE IF ~navigated
        THEN Result(FALSE, clicked)
        ELSE IF still.ok
        THEN Result(FALSE, checked \o << Op("textContent", ERROR_CONTAINER, after.alert) >>)
        ELSE Result(TRUE, checked)

\* s: the page that asks for the code; navigated: waitForNavigation returned
\* (it throws on its timeout otherwise); after: the page after the submit.
\* The entry "isMFARequired" of the transcript is the answer of the call
\* const stillOnOTPPage = await isMFARequired(page), not a driver call.
submitMFACodeBody(code, s, navigated, after, mfaThrow) ==
    LET inputAt == FirstVisible(s, OTP_INPUT_SELECTORS)
        buttonAt == FirstVisible(s, SUBMIT_BUTTON_SELECTORS)
        findInput == << Op("screenshot", "otp-page.png", "") >> \o ProbeOps(s, OTP_INPUT_SELECTORS)
        filled == findInput \o << Op("fill", OTP_INPUT_SELECTORS[inputAt], ""),
                                 Op("fill", OTP_INPUT_SELECTORS[inputAt], code) >>
        findButton == filled \o ProbeOps(s, SUBMIT_BUTTON_SELECTORS)
        clicked == findButton \o << Op("click", SUBMIT_BUTTON_SELECTORS[buttonAt], ""),
                                    Op("waitForNavigation", "load", Bool(navigated)) >>
        still == isMFARequired(after, mfaThrow)
        checked == clicked \o << Op("screenshot", "after-otp-submission.png", "") >> \o still.ops
                           \o << Op("isMFARequired", "", Bool(still.ok)),
                                 Op("isVisible", ERROR_CONTAINER, Bool(AlertVisible(after))) >>
    IN  IF inputAt = 0
        THEN Result(FALSE, findInput)
        ELSE IF buttonAt = 0
        THEN Result(FALSE, findButton)
        ELSE IF ~navigated
        THEN Result(FALSE, clicked)
        ELSE IF still.ok \/ AlertVisible(after)
        THEN Result(FALSE, checked \o << Op("textContent", ERROR_CONTAINER, after.alert) >>)
        ELSE Result(TRUE, checked)

submitMFACode(code, s, navigated, after, mfaThrow, throwAt) ==
    Caught(submitMFACodeBody(code, s, navigated, after, mfaThrow), throwAt)

(***************************************************************************)
(* navigation.ts: navigateToOrderHistory, selectOrderYear                  *)
(***************************************************************************)
ORDER_BUTTON_PARTS == {"#nav-orders", "a[href*=order-history]"}

ORDER_PAGE_INDICATORS ==
    << ".your-orders-content", ".order-card", ".a-box-group", "a:has-text(Buy it again)",
       "#ordersContainer", "#yourOrders", "h1:has-text(Your Orders)", "text=Your Orders",
       ".shipping-address", "text=Buy Again", "text=Not Yet Shipped", "text=orders placed in",
       "#orderTypeMenuContainer", ".a-pagination", ".order", ".time-filter-dropdown",
       "#nav-orders" >>

YEAR_CONTENT_PARTS == {".your-orders-content", ".order-card", ".a-box-group", "div[class*=order]"}

ORDER_HISTORY_YEAR(selected) ==
    "https://www.amazon.in/your-orders/orders?timeFilter=year-" \o ToString(selected)

PollRounds == 10

OrderUrlSeen(currentUrl) ==
    \/ includes(currentUrl, "order-history")
    \/ includes(currentUrl, "your-orders")
    \/ includes(currentUrl, "gp/css/order-history")

OrderUrlLikely(currentUrl) == includes(currentUrl, "order-history") \/ includes(currentUrl, "your-orders")

NavResult(ok, calls, currentUrl) == [ok |-> ok, ops |-> calls, url |-> currentUrl]

\* The page the r-th polling round looks at: the site arrives at `land` in
\* round `arrive`; before that the page is still the one that was clicked on.
PolledPage(s, land, arrive, r) == IF r < arrive THEN s ELSE land

RoundLoads(snap) == OrderUrlSeen(snap.url) \/ FirstVisible(snap, ORDER_PAGE_INDICATORS) # 0

RoundOps(snap) ==
    IF OrderUrlSeen(snap.url)
    THEN << Op("waitForTimeout", "ORDER_PAGE_CHECK", "") >>
    ELSE IF FirstVisible(snap, ORDER_PAGE_INDICATORS) # 0
    THEN ProbeOps(snap, ORDER_PAGE_INDICATORS)
    ELSE ProbeOps(snap, ORDER_PAGE_INDICATORS) \o << Op("waitForTimeout", "ELEMENT_WAIT", "") >>

\* for (let attempt = 0; attempt < 10 && !orderPageLoaded; attempt++) from round r on
RECURSIVE Polling(_, _, _, _)
Polling(s, land, arrive, r) ==
    IF r > PollRounds
    THEN NavResult(FALSE, <<>>, PolledPage(s, land, arrive, PollRounds).url)
    ELSE LET snap == PolledPage(s, land, arrive, r)
         IN  IF RoundLoads(snap)
             THEN NavResult(TRUE, RoundOps(snap), snap.url)
             ELSE LET rest == Polling(s, land, arrive, r + 1)
                  IN  NavResult(rest.ok, RoundOps(snap) \o rest.ops, rest.url)

\* the calls of the polling try block that can throw into its catch block:
\* the isVisible calls have a try/catch of their own
PollThrows(op) == op[1] # "isVisible"

\* at: the positions of the calls that can throw into a catch block; the
\* position of the k-th of them, 0 when there is none (or k is 0: nothing throws)
ThrowingAt(at, k) ==
    IF k = 0 \/ Cardinality(at) < k THEN 0
    ELSE CHOOSE i \in at : Cardinality({ j \in at : j <= i }) = k

\* s: the page after login; land/arrive: see PolledPage; pollThrowAt: which of
\* the throwing calls inside the polling try block throws (0: none); d: the
\* page after the direct navigation.
navigateToOrderHistoryBody(s, land, arrive, pollThrowAt, d) ==
    LET found == << Op("$", "#nav-orders, a[href*=order-history]", Bool(AnyVisible(s, ORDER_BUTTON_PARTS))) >>
        clicked == found \o << Op("click", "#nav-orders, a[href*=order-history]", "") >>
        poll == Polling(s, land, arrive, 1)
        pollOps == poll.ops \o << Op("screenshot", "order-page-check.png", "") >>
        final == PolledPage(s, land, arrive, PollRounds)
        direct == found \o << Op("goto", ORDER_HISTORY_URL, "") >> \o ProbeOps(d, ORDER_PAGE_INDICATORS)
        thrown == ThrowingAt({ i \in 1..Len(pollOps) : PollThrows(pollOps[i]) }, pollThrowAt)
    IN  IF AnyVisible(s, ORDER_BUTTON_PARTS)
        THEN IF thrown # 0
             THEN NavResult(OrderUrlLikely(final.url),
                            clicked \o SubSeq(pollOps, 1, thrown)
                                    \o << Op("screenshot", "orders-page-error.png", "") >>,
                            final.url)
             ELSE NavResult(poll.ok, clicked \o pollOps, poll.url)
        ELSE IF FirstVisible(d, ORDER_PAGE_INDICATORS) # 0
        THEN NavResult(TRUE, direct, d.url)
        ELSE NavResult(OrderUrlLikely(d.url), direct, d.url)

\* the calls whose exception reaches the outer catch block
OuterThrows(op) ==
    op[1] \in {"$", "click", "goto"} \/ op = Op("screenshot", "orders-page-error.png", "")

\* the outer try/catch: the throwAt-th of the calls that reach it throws
\* (0: none).  A goto that rejects may have left the page at its target.
navigateToOrderHistory(s, land, arrive, pollThrowAt, d, throwAt) ==
    LET r == navigateToOrderHistoryBody(s, land, arrive, pollThrowAt, d)
        thrown == ThrowingAt({ i \in 1..Len(r.ops) : OuterThrows(r.ops[i]) }, throwAt)
    IN  IF thrown # 0
        THEN NavResult(FALSE, SubSeq(r.ops, 1, thrown),
                       IF r.ops[thrown][1] = "goto" THEN d.url
                       ELSE IF r.ops[thrown][1] = "screenshot" THEN r.url
                       ELSE s.url)
        ELSE r

\* d: the page the year navigation shows
selectOrderYearBody(selected, d) ==
    LET seen == << Op("goto", ORDER_HISTORY_YEAR(selected), ""),
                   Op("waitForTimeout", "YEAR_NAVIGATION", ""),
                   Op("isVisible", ".your-orders-content, .order-card, .a-box-group, div[class*=order]",
                      Bool(AnyVisible(d, YEAR_CONTENT_PARTS))) >>
    IN  IF AnyVisible(d, YEAR_CONTENT_PARTS)
        THEN Result(TRUE, seen)
        ELSE Result(TRUE, seen \o << Op("screenshot", "year-direct-navigation.png", ToString(selected)) >>)

selectOrderYear(selected, d, throwAt) == Caught(selectOrderYearBody(selected, d), throwAt)

(***************************************************************************)
(* extraction.ts: extractOrders.  A page is the sequence of its order      *)
(* cards (.order-card.js-order-card) in document order.                    *)
(***************************************************************************)
Elem(text, href) == [present |-> TRUE, text |-> text, href |-> href]
NoElem == [present |-> FALSE, text |-> "", href |-> ""]

\* group: the card has an .a-box-group; price, date: the text of the two
\* header cells ("" when the cell is missing or empty); boxes: the product
\* title link of each .a-box.delivery-box; title, movie: the first
\* .yohtmlc-product-title a / .yohtmlc-item a of the group.
Card(group, price, date, boxes, title, movie) ==
    [group |-> group, price |-> price, date |-> date, boxes |-> boxes,
     title |-> title, movie |-> movie]

\* productElement && productElement.textContent
HasText(e) == e.present /\ e.text # ""

\* Variant of AbsoluteLink that hands the href on as it is.
AbsoluteLinkAsIs(href) == href

AbsoluteLink(href) == IF startsWith(href, "http") THEN href ELSE BASE_URL \o href

ItemOf(e) == [productName |-> trim(e.text), link |-> AbsoluteLink(e.href)]

\* the items pushed for the elements es, in order: those with a product name
RECURSIVE ItemsOf(_)
ItemsOf(es) ==
    IF es = <<>> THEN <<>>
    ELSE (IF HasText(Head(es)) /\ trim(Head(es).text) # "" THEN << ItemOf(Head(es)) >> ELSE <<>>)
         \o ItemsOf(Tail(es))

\* Variant of CardItems that tries the digital title before the product title.
CardItemsMovieFirst(card) ==
    IF Len(card.boxes) > 0
    THEN ItemsOf(card.boxes)
    ELSE IF HasText(card.movie)
    THEN ItemsOf(<< card.movie >>)
    ELSE ItemsOf(<< card.title >>)

CardItems(card) ==
    IF Len(card.boxes) > 0
    THEN ItemsOf(card.boxes)
    ELSE IF HasText(card.title)
    THEN ItemsOf(<< card.title >>)
    ELSE ItemsOf(<< card.movie >>)

OrderEntry(card) ==
    [orderDate |-> IF card.date # "" THEN trim(card.date) ELSE "N/A",
     price |-> IF card.price # "" THEN trim(card.price) ELSE "N/A",
     items |-> CardItems(card)]

\* Variant of KeepsOrder without the filter: every entry is pushed.
KeepsEveryOrder(entry) == Len(entry.items) >= 0

\* if (orderEntry.items.length > 0) result.push(orderEntry)
KeepsOrder(entry) == Len(entry.items) > 0

RECURSIVE CardOrders(_)
CardOrders(orderCards) ==
    IF orderCards = <<>> THEN <<>>
    ELSE (IF Head(orderCards).group /\ KeepsOrder(OrderEntry(Head(orderCards)))
          THEN << OrderEntry(Head(orderCards)) >> ELSE <<>>)
         \o CardOrders(Tail(orderCards))

\* orders.reduce((sum, order) => sum + order.items.length, 0)
RECURSIVE TotalItems(_)
TotalItems(list) ==
    IF list = <<>> THEN 0 ELSE Len(list[1].items) + TotalItems(Tail(list))

\* evaluated: page.evaluate returned (it throws otherwise, and [] is returned)
extractOrders(orderCards, evaluated) == IF evaluated THEN CardOrders(orderCards) ELSE <<>>

(***************************************************************************)
(* Inputs: what the user may type and what the site may show.              *)
(***************************************************************************)
MaxThrowAt == 2
CurrentYear == 2026
SmallPage == 3
MaxCards == 12

UsernameAttempts == 3
PasswordAttempts == 3
OtpAttempts == 3
Quota == 10
YearsBack == 4
MaxYears == 5

Identifiers ==
    {"user@example.com", "9876543210", "abc", "a@b.org", "user.com", "98765432101", "98765 4321"}
Passwords == {"", " ", "secret1", "secret2"}
OtpCodes == {"", "123456", "654321"}

ThrowAts == 0..MaxThrowAt

UsernamePrePages ==
    { Snapshot(LOGIN_URL, "Amazon Sign In", {EMAIL_FIELD}, al, "Sign in")
      : al \in {NoAlert, "Invalid mobile number"} }

UsernamePostPages ==
    { Snapshot(LOGIN_URL, "Amazon Sign In", vis, al, "Sign in")
      : vis \in {{EMAIL_FIELD}, {PASSWORD_FIELD}},
        al \in {NoAlert, "", "Invalid mobile number", "There was a problem",
                "We cannot find an account with that email address",
                "Important Message!"} }

PasswordPostPages ==
    { Snapshot(u, "Amazon Sign In", {}, al, body)
      : u \in {LOGIN_URL, SIGNIN_POST_URL, MFA_URL, HOME_URL},
        al \in {NoAlert, "Your password is incorrect", "Enter the OTP sent, wait 60 seconds",
                "There was a problem", "Important Message!"},
        body \in {"Sign in", "Enter the OTP sent to your mobile"} }

SettledPages ==
    { Snapshot(u, "Amazon", vis, NoAlert, "")
      : u \in {SIGNIN_POST_URL, HOME_URL},
        vis \in {{}, {".auth-workflow"}, {"#nav-logo"}} }

OtpPages ==
    { Snapshot(MFA_URL, "Two-Step Verification", vis, NoAlert, "Enter the OTP")
      : vis \in {{}, {"#auth-mfa-otpcode"}, {"#auth-mfa-otpcode", "#auth-signin-button"},
                 {"input[type=text]", ".a-button-input"}} }

OtpAfterPages ==
    { Snapshot(u, t, {}, al, "")
      : u \in {MFA_URL, HOME_URL},
        t \in {"Amazon", "Two-Step Verification"},
        al \in {NoAlert, "The code you entered is not valid"} }

MfaCheckPages ==
    { Snapshot(u, t, vis, NoAlert, body)
      : u \in {LOGIN_URL, SIGNIN_POST_URL, MFA_URL, HOME_URL},
        t \in {"Amazon", "Two-Step Verification"},
        vis \in {{}, {"#auth-mfa-form"}},
        body \in {"", "Sign in", "Enter the OTP sent to your mobile"} }

FinalPages ==
    { Snapshot(HOME_URL, "Amazon", vis, NoAlert, "")
      : vis \in {{}, {"#nav-logo"}, {EMAIL_FIELD}, {PASSWORD_FIELD}, {".auth-workflow"},
                 {"#nav-logo", ".auth-workflow"}} }

\* a run of a stage function: its return value, its driver calls, and the
\* page as it showed when the function looked at the outcome
Seen(r, snap) == [ok |-> r.ok, ops |-> r.ops, page |-> snap]

UsesRace(r) == \E i \in 1..Len(r.ops) : r.ops[i][1] = "race"

\* every way a call of enterUsername can go
EnterUsernameRunsOf(username) ==
    { Seen(enterUsername(username, pre, post, t), post)
      : pre \in UsernamePrePages, post \in UsernamePostPages, t \in ThrowAts }

EnterUsernameRuns == [username \in Identifiers |-> EnterUsernameRunsOf(username)]

\* every way a call of enterPassword can go: the race and the settled page
\* are drawn only when the call gets that far
EnterPasswordRunsOf(password) ==
    UNION { LET first == enterPasswordBody(password, a, m, "timeout", CHOOSE b \in SettledPages : TRUE)
            IN  IF UsesRace(first)
                THEN { Seen(enterPassword(password, a, m, race, b, t), a)
                       : race \in RaceOutcomes, b \in SettledPages, t \in ThrowAts }
                ELSE { Seen(enterPassword(password, a, m, "timeout", CHOOSE b \in SettledPages : TRUE, t), a)
                       : t \in ThrowAts }
            : a \in PasswordPostPages, m \in ThrowAts }

EnterPasswordRuns == [password \in Passwords \ {""} |-> EnterPasswordRunsOf(password)]

IsMFARequiredRuns == { Seen(isMFARequired(s, t), s) : s \in MfaCheckPages, t \in ThrowAts }

SubmitMFACodeRunsOf(code) ==
    { Seen(submitMFACode(code, s, navigated, after, m, t), after)
      : s \in OtpPages, navigated \in BOOLEAN, after \in OtpAfterPages,
        m \in ThrowAts, t \in ThrowAts }

SubmitMFACodeRuns == [code \in OtpCodes \ {""} |-> SubmitMFACodeRunsOf(code)]

(***************************************************************************)
(* Order-history pages: MaxCards or SmallPage cards, or none, the cards    *)
(* following one of a few layouts.                                         *)
(***************************************************************************)
CardDate(i) == "Ordered on day " \o ToString(i)

SingleCard(i) ==
    Card(TRUE, " 499.00 ", CardDate(i), <<>>, Elem(" Phone case ", "/dp/B0" \o ToString(i)), NoElem)
MovieCard(i) ==
    Card(TRUE, "149.00", CardDate(i), <<>>, NoElem, Elem("A movie", "https://www.primevideo.com/detail/" \o ToString(i)))
MultiCard(i) ==
    Card(TRUE, "1,299.00", CardDate(i),
         << Elem("Kettle", "/dp/K" \o ToString(i)), NoElem, Elem("Toaster", "/dp/T" \o ToString(i)) >>,
         Elem("Kettle", "/dp/K" \o ToString(i)), NoElem)
BlankCard(i) == Card(TRUE, "", "", <<>>, Elem("   ", "/dp/X"), Elem("Hidden by a blank title", "/dp/Y"))
EmptyCard(i) == Card(TRUE, "10.00", CardDate(i), <<>>, NoElem, NoElem)
UntitledBoxesCard(i) ==
    Card(TRUE, "10.00", CardDate(i), << NoElem, Elem("", "/dp/Z") >>, NoElem, Elem("A movie", "/gp/video/1"))
GrouplessCard(i) == Card(FALSE, "10.00", CardDate(i), <<>>, Elem("Orphan", "/dp/O"), NoElem)

Layouts == {"single", "mixed"}

LayoutCard(layout, i) ==
    IF layout = "single" THEN SingleCard(i)
    ELSE IF i % 6 = 1 THEN MultiCard(i)
    ELSE IF i % 6 = 2 THEN EmptyCard(i)
    ELSE IF i % 6 = 3 THEN MovieCard(i)
    ELSE IF i % 6 = 4 THEN BlankCard(i)
    ELSE IF i % 6 = 5 THEN UntitledBoxesCard(i)
    ELSE GrouplessCard(i)

PageOf(layout, n) == [i \in 1..n |-> LayoutCard(layout, i)]

Pages == { PageOf(layout, n) : layout \in Layouts, n \in {0, SmallPage, MaxCards} }

\* a product-detail link outside every order card, with the price node next to it
ProductLink(i) ==
    [text |-> "Loose product " \o ToString(i), href |-> "/dp/L" \o ToString(i), price |-> "99.00"]

\* the product-detail links a page shows outside its order cards: none or two
LooseLinks == { <<>>, << ProductLink(1), ProductLink(2) >> }

\* every result extractOrders can return, with the cards the script saw and
\* the loose product links of the page (nothing is seen when page.evaluate
\* throws).  The script queries .order-card.js-order-card only: the loose
\* links are on the page and are not read.
ExtractOrdersRuns ==
    { [cards |-> shown, links |-> loose, ran |-> TRUE, orders |-> extractOrders(shown, TRUE),
       ops |-> << Op("evaluate", "", "") >>]
      : shown \in Pages, loose \in LooseLinks }
    \cup { [cards |-> <<>>, links |-> <<>>, ran |-> FALSE, orders |-> extractOrders(<<>>, FALSE),
            ops |-> << Op("evaluate", "", "threw") >>] }

YearPages ==
    { Snapshot(HOME_URL, "Your Orders", vis, NoAlert, "") : vis \in {{}, {".order-card"}} }

SelectOrderYearRunsOf(selected) ==
    { selectOrderYear(selected, d, t) : d \in YearPages, t \in ThrowAts }

AfterLoginPages ==
    { Snapshot(HOME_URL, "Amazon", vis, NoAlert, "")
      : vis \in {{}, {"a[href*=order-history]"}, {"#nav-orders"}} }

LandedPages ==
    { Snapshot(u, "Your Orders", vis, NoAlert, "")
      : u \in {HOME_URL, ORDER_HISTORY_URL},
        vis \in {{}, {".order-card"}} }

NavigateToOrderHistoryRuns ==
    { navigateToOrderHistory(s, land, arrive, pt, d, t)
      : s \in AfterLoginPages, land \in LandedPages, arrive \in {1, 2, PollRounds + 1},
        pt \in ThrowAts, d \in LandedPages, t \in ThrowAts }

(***************************************************************************)
(* index.ts: the run.  pc is the statement main or handleLogin is at;      *)
(* ops is the list of driver calls the last step made.                     *)
(***************************************************************************)
VARIABLES
    pc,                \* where the run is
    browser,           \* "none", "open" or "closed"
    exitCode,          \* "running", "0" or "1"
    typed,             \* the answer a prompt has just rejected, "" when none
    verdict,           \* what validateCredentials returned to the username question, and for which input
    credentials,       \* handleLogin: const credentials
    newCredentials,    \* handleLogin: const newCredentials of the last retry
    newPassword,       \* handleLogin: const newPassword of the last retry
    otpCode,           \* handleLogin: const otpCode of the last attempt
    usernameEntered, usernameAttempts,
    passwordEntered, passwordAttempts,
    otpRequired, otpSuccess, otpAttempts,
    loginResult,       \* "pending", "null" or "success"
    ops,               \* the driver calls of the last step, in order
    page,              \* the page as the last step found it (blank: it did not look)
    url,               \* page.url() once login is over
    cards,             \* the order cards the last page.evaluate saw
    looseLinks,        \* the product links outside the cards on that page
    scriptRan,         \* the last page.evaluate returned (FALSE: it threw, or none yet)
    extracted,         \* the list the last call of extractOrders returned
    ordersCollected, year, yearsScraped,
    orders,            \* main: const orders, the list handed to the result sink
    exhausted,         \* history: the stage whose attempts ran out, or "none"
    scrapeCalled,      \* history: scrapeOrders was called with the page
    secondFactor,      \* history: a verification code was accepted
    printed,           \* main: console.log(JSON.stringify(orders)) ran
    saved,             \* main: fs.writeFileSync returned
    uncaught,          \* history: an error reached main's catch block
    submitted,         \* history: calls of enterUsername, enterPassword, submitMFACode
    latestPassword,    \* history: the password of the latest promptForCredentials answer
    navs               \* history: the years passed to selectOrderYear, in order

loginVars == << typed, verdict, credentials, newCredentials, newPassword, otpCode,
                usernameEntered, usernameAttempts, passwordEntered, passwordAttempts,
                otpRequired, otpSuccess, otpAttempts, latestPassword >>
harvestVars == << url, cards, looseLinks, scriptRan, extracted, ordersCollected, year, yearsScraped, orders, scrapeCalled, navs >>
vars == << pc, browser, exitCode, loginVars, loginResult, ops, page, harvestVars,
          exhausted, secondFactor, printed, saved, uncaught, submitted >>

NoCredentials == [username |-> "", password |-> ""]

\* no answer to the username question has been validated
NoVerdict == [input |-> "", isValid |-> FALSE, type |-> "none"]

\* the tab before the first navigation
\* nothing has been handed to a stage function yet
NoSubmissions == [username |-> 0, password |-> 0, otp |-> 0]

BlankPage == Snapshot("about:blank", "", {}, NoAlert, "")

Init ==
    /\ pc = "handleLogin"
    /\ browser = "none"
    /\ exitCode = "running"
    /\ typed = ""
    /\ verdict = NoVerdict
    /\ credentials = NoCredentials
    /\ newCredentials = NoCredentials
    /\ newPassword = ""
    /\ latestPassword = ""
    /\ otpCode = ""
    /\ usernameEntered = FALSE
    /\ usernameAttempts = UsernameAttempts
    /\ passwordEntered = FALSE
    /\ passwordAttempts = PasswordAttempts
    /\ otpRequired = FALSE
    /\ otpSuccess = FALSE
    /\ otpAttempts = OtpAttempts
    /\ loginResult = "pending"
    /\ ops = <<>>
    /\ page = BlankPage
    /\ secondFactor = FALSE
    /\ printed = FALSE
    /\ saved = FALSE
    /\ uncaught = FALSE
    /\ submitted = NoSubmissions
    /\ url = ""
    /\ cards = <<>>
    /\ looseLinks = <<>>
    /\ scriptRan = FALSE
    /\ extracted = <<>>
    /\ ordersCollected = <<>>
    /\ year = CurrentYear
    /\ yearsScraped = 0
    /\ orders = <<>>
    /\ exhausted = "none"
    /\ scrapeCalled = FALSE
    /\ navs = <<>>

\* handleLogin returns or rejects: its locals end with the call
LocalsEnd ==
    /\ typed' = ""
    /\ verdict' = NoVerdict
    /\ credentials' = NoCredentials
    /\ newCredentials' = NoCredentials
    /\ newPassword' = ""
    /\ latestPassword' = ""
    /\ otpCode' = ""
    /\ usernameEntered' = FALSE
    /\ usernameAttempts' = UsernameAttempts
    /\ passwordEntered' = FALSE
    /\ passwordAttempts' = PasswordAttempts
    /\ otpRequired' = FALSE
    /\ otpSuccess' = FALSE
    /\ otpAttempts' = OtpAttempts

\* Variant of CloseAndReturnNull: the branch hands the page on instead.
ReturnPageAnyway ==
    /\ browser' = browser
    /\ loginResult' = "success"
    /\ pc' = "main"
    /\ LocalsEnd

\* await browser.close(); return null;   (back in main with loginResult null)
CloseAndReturnNull ==
    /\ browser' = "closed"
    /\ loginResult' = "null"
    /\ pc' = "main"
    /\ LocalsEnd

\* a driver call made directly in handleLogin's try block throws
ToLoginCatch ==
    /\ pc' = "loginCatch"
    /\ UNCHANGED << browser, loginResult >>

\* const { browser, page } = await initBrowser();  (outside the try block)
InitBrowser ==
    /\ pc = "handleLogin"
    /\ \E launched \in BOOLEAN :
         IF launched
         THEN /\ browser' = "open"
              /\ pc' = "navigateToAmazonLogin"
              /\ UNCHANGED << exitCode, uncaught >>
         ELSE /\ exitCode' = "1"
              /\ pc' = "exited"
              /\ uncaught' = TRUE
              /\ UNCHANGED browser
    /\ ops' = <<>>
    /\ UNCHANGED << loginVars, loginResult, harvestVars, exhausted, secondFactor,
                    printed, saved >>
    /\ page' = BlankPage
    /\ UNCHANGED submitted

\* Variant of NavigateToAmazonLogin that tries the navigation again whenever it
\* has failed.
NavigateToAmazonLoginRetrying ==
    /\ pc = "navigateToAmazonLogin"
    /\ \E t \in ThrowAts :
         LET calls == << Op("goto", LOGIN_URL, ""), Op("waitForTimeout", "PAGE_LOAD", ""),
                         Op("waitForTimeout", "3000", "") >>
         IN  IF t \in 1..Len(calls)
             THEN ops' = SubSeq(calls, 1, t) /\ UNCHANGED << pc, browser, loginResult >>
             ELSE ops' = calls /\ pc' = "credentials.username" /\ UNCHANGED << browser, loginResult >>
    /\ UNCHANGED << exitCode, loginVars, harvestVars, exhausted, secondFactor,
                    printed, saved, uncaught >>
    /\ page' = BlankPage
    /\ UNCHANGED submitted

\* await navigateToAmazonLogin(page); await page.waitForTimeout(3000);
NavigateToAmazonLogin ==
    /\ pc = "navigateToAmazonLogin"
    /\ \E t \in ThrowAts :
         LET calls == << Op("goto", LOGIN_URL, ""), Op("waitForTimeout", "PAGE_LOAD", ""),
                         Op("waitForTimeout", "3000", "") >>
         IN  IF t \in 1..Len(calls)
             THEN ops' = SubSeq(calls, 1, t) /\ ToLoginCatch
             ELSE ops' = calls /\ pc' = "credentials.username" /\ UNCHANGED << browser, loginResult >>
    /\ UNCHANGED << exitCode, loginVars, harvestVars, exhausted, secondFactor,
                    printed, saved, uncaught >>
    /\ page' = BlankPage
    /\ UNCHANGED submitted

\* Variant of PromptAccepts: a validate callback that lets every answer through.
PromptAcceptsAnything(input) == Len(input) >= 0

\* inquirer's validate callback of the username question
PromptAccepts(input) == validateCredentials(input).isValid

\* promptForCredentials, the username question: asked again until accepted
PromptUsername ==
    /\ pc \in {"credentials.username", "newCredentials.username"}
    /\ \E input \in Identifiers :
         /\ typed' = IF PromptAccepts(input) THEN "" ELSE input
         /\ UNCHANGED latestPassword
         /\ verdict' = [input |-> input, isValid |-> validateCredentials(input).isValid,
                        type |-> validateCredentials(input).type]
         /\ IF PromptAccepts(input)
            THEN IF pc = "credentials.username"
                 THEN /\ credentials' = [credentials EXCEPT !.username = input]
                      /\ pc' = "credentials.password"
                      /\ UNCHANGED newCredentials
                 ELSE /\ newCredentials' = [newCredentials EXCEPT !.username = input]
                      /\ pc' = "newCredentials.password"
                      /\ UNCHANGED credentials
            ELSE UNCHANGED << pc, credentials, newCredentials >>
    /\ ops' = <<>>
    /\ UNCHANGED << browser, exitCode, newPassword, otpCode, usernameEntered, usernameAttempts,
                    passwordEntered, passwordAttempts, otpRequired, otpSuccess, otpAttempts,
                    loginResult, harvestVars, exhausted, secondFactor,
                    printed, saved, uncaught >>
    /\ page' = BlankPage
    /\ UNCHANGED submitted

\* promptForCredentials, the password question: asked again until not blank
PromptCredentialsPassword ==
    /\ pc \in {"credentials.password", "newCredentials.password"}
    /\ \E input \in Passwords :
         /\ typed' = IF validatePassword(input) THEN "" ELSE input
         /\ latestPassword' = IF validatePassword(input) THEN input ELSE latestPassword
         /\ verdict' = NoVerdict
         /\ IF validatePassword(input)
            THEN IF pc = "credentials.password"
                 THEN /\ credentials' = [credentials EXCEPT !.password = input]
                      /\ pc' = "enterUsername"
                      /\ UNCHANGED newCredentials
                 ELSE /\ newCredentials' = [newCredentials EXCEPT !.password = input]
                      /\ pc' = "enterUsernameRetry"
                      /\ UNCHANGED credentials
            ELSE UNCHANGED << pc, credentials, newCredentials >>
    /\ ops' = <<>>
    /\ UNCHANGED << browser, exitCode, newPassword, otpCode, usernameEntered, usernameAttempts,
                    passwordEntered, passwordAttempts, otpRequired, otpSuccess, otpAttempts,
                    loginResult, harvestVars, exhausted, secondFactor,
                    printed, saved, uncaught >>
    /\ page' = BlankPage
    /\ UNCHANGED submitted

\* let usernameEntered = await enterUsername(page, credentials.username);
\* let usernameAttempts = 3;
EnterUsernameFirst ==
    /\ pc = "enterUsername"
    /\ \E r \in EnterUsernameRuns[credentials.username] :
         /\ usernameEntered' = r.ok
         /\ ops' = r.ops
         /\ page' = r.page
    /\ usernameAttempts' = UsernameAttempts
    /\ pc' = "usernameLoop"
    /\ UNCHANGED << browser, exitCode, typed, verdict, credentials, latestPassword, newCredentials, newPassword, otpCode,
                    passwordEntered, passwordAttempts, otpRequired, otpSuccess, otpAttempts,
                    loginResult, harvestVars, exhausted, secondFactor,
                    printed, saved, uncaught >>
    /\ submitted' = [submitted EXCEPT !.username = @ + 1]

\* Variant of UsernameRetry that asks again without counting the attempt.
UsernameRetryUncounted ==
    /\ pc = "usernameLoop"
    /\ ~usernameEntered /\ usernameAttempts > 1
    /\ ops' = << Op("screenshot", "invalid-username.png", ToString(usernameAttempts)) >>
    /\ pc' = "newCredentials.username"
    /\ page' = BlankPage
    /\ UNCHANGED << browser, exitCode, loginVars, loginResult, harvestVars, exhausted,
                    secondFactor, printed, saved, uncaught, submitted >>

\* Variant of UsernameRetry that names the screenshot before it decrements.
UsernameRetryNamedBefore ==
    /\ pc = "usernameLoop"
    /\ ~usernameEntered /\ usernameAttempts > 1
    /\ usernameAttempts' = usernameAttempts - 1
    /\ ops' = << Op("screenshot", "invalid-username.png", ToString(usernameAttempts)) >>
    /\ \E thrown \in BOOLEAN :
         IF thrown THEN ToLoginCatch
         ELSE pc' = "newCredentials.username" /\ UNCHANGED << browser, loginResult >>
    /\ UNCHANGED << exitCode, typed, verdict, credentials, latestPassword, newCredentials, newPassword, otpCode,
                    usernameEntered, passwordEntered, passwordAttempts, otpRequired, otpSuccess,
                    otpAttempts, harvestVars, exhausted, secondFactor,
                    printed, saved, uncaught >>
    /\ page' = BlankPage
    /\ UNCHANGED submitted

\* while (!usernameEntered && usernameAttempts > 1) { usernameAttempts--; screenshot; ...
UsernameRetry ==
    /\ pc = "usernameLoop"
    /\ ~usernameEntered /\ usernameAttempts > 1
    /\ usernameAttempts' = usernameAttempts - 1
    /\ ops' = << Op("screenshot", "invalid-username.png", ToString(usernameAttempts - 1)) >>
    /\ \E thrown \in BOOLEAN :
         IF thrown THEN ToLoginCatch
         ELSE pc' = "newCredentials.username" /\ UNCHANGED << browser, loginResult >>
    /\ UNCHANGED << exitCode, typed, verdict, credentials, latestPassword, newCredentials, newPassword, otpCode,
                    usernameEntered, passwordEntered, passwordAttempts, otpRequired, otpSuccess,
                    otpAttempts, harvestVars, exhausted, secondFactor,
                    printed, saved, uncaught >>
    /\ page' = BlankPage
    /\ UNCHANGED submitted

\* ... usernameEntered = await enterUsername(page, newCredentials.username); }
\* (const newCredentials belongs to the loop body and ends with it)
EnterUsernameRetry ==
    /\ pc = "enterUsernameRetry"
    /\ \E r \in EnterUsernameRuns[newCredentials.username] :
         /\ usernameEntered' = r.ok
         /\ ops' = r.ops
         /\ page' = r.page
    /\ newCredentials' = NoCredentials
    /\ pc' = "usernameLoop"
    /\ UNCHANGED << browser, exitCode, typed, verdict, credentials, latestPassword, newPassword, otpCode,
                    usernameAttempts, passwordEntered, passwordAttempts, otpRequired, otpSuccess,
                    otpAttempts, loginResult, harvestVars, exhausted, secondFactor,
                    printed, saved, uncaught >>
    /\ submitted' = [submitted EXCEPT !.username = @ + 1]

\* if (!usernameEntered) { await browser.close(); return null; }
UsernameExhausted ==
    /\ pc = "usernameLoop"
    /\ ~usernameEntered /\ ~(usernameAttempts > 1)
    /\ exhausted' = "username"
    /\ ops' = << Op("close", "browser", "") >>
    /\ CloseAndReturnNull
    /\ UNCHANGED << exitCode, harvestVars, secondFactor,
                    printed, saved, uncaught >>
    /\ page' = BlankPage
    /\ UNCHANGED submitted

\* Variant of EnterPasswordFirst that does not wait for the username stage.
EnterPasswordFirstUnguarded ==
    /\ pc = "usernameLoop"
    /\ \E r \in EnterPasswordRuns[credentials.password] :
         /\ passwordEntered' = r.ok
         /\ ops' = r.ops
         /\ page' = r.page
    /\ passwordAttempts' = PasswordAttempts
    /\ pc' = "passwordLoop"
    /\ UNCHANGED << browser, exitCode, typed, verdict, credentials, latestPassword, newCredentials, newPassword, otpCode,
                    usernameEntered, usernameAttempts, otpRequired, otpSuccess, otpAttempts,
                    loginResult, harvestVars, exhausted, secondFactor,
                    printed, saved, uncaught >>
    /\ submitted' = [submitted EXCEPT !.password = @ + 1]

\* let passwordEntered = await enterPassword(page, credentials.password);
\* let passwordAttempts = 3;
EnterPasswordFirst ==
    /\ pc = "usernameLoop"
    /\ usernameEntered
    /\ \E r \in EnterPasswordRuns[credentials.password] :
         /\ passwordEntered' = r.ok
         /\ ops' = r.ops
         /\ page' = r.page
    /\ passwordAttempts' = PasswordAttempts
    /\ pc' = "passwordLoop"
    /\ UNCHANGED << browser, exitCode, typed, verdict, credentials, latestPassword, newCredentials, newPassword, otpCode,
                    usernameEntered, usernameAttempts, otpRequired, otpSuccess, otpAttempts,
                    loginResult, harvestVars, exhausted, secondFactor,
                    printed, saved, uncaught >>
    /\ submitted' = [submitted EXCEPT !.password = @ + 1]

\* Variant of PasswordRetry that asks again without counting the attempt.
PasswordRetryUncounted ==
    /\ pc = "passwordLoop"
    /\ ~passwordEntered /\ passwordAttempts > 1
    /\ ops' = << Op("screenshot", "incorrect-password.png", ToString(passwordAttempts)) >>
    /\ pc' = "newPassword"
    /\ page' = BlankPage
    /\ UNCHANGED << browser, exitCode, loginVars, loginResult, harvestVars, exhausted,
                    secondFactor,
                    printed, saved, uncaught >>
    /\ UNCHANGED submitted

\* while (!passwordEntered && passwordAttempts > 1) { passwordAttempts--; screenshot; ...
PasswordRetry ==
    /\ pc = "passwordLoop"
    /\ ~passwordEntered /\ passwordAttempts > 1
    /\ passwordAttempts' = passwordAttempts - 1
    /\ ops' = << Op("screenshot", "incorrect-password.png", ToString(passwordAttempts - 1)) >>
    /\ \E thrown \in BOOLEAN :
         IF thrown THEN ToLoginCatch
         ELSE pc' = "newPassword" /\ UNCHANGED << browser, loginResult >>
    /\ UNCHANGED << exitCode, typed, verdict, credentials, latestPassword, newCredentials, newPassword, otpCode,
                    usernameEntered, usernameAttempts, passwordEntered, otpRequired, otpSuccess,
                    otpAttempts, harvestVars, exhausted, secondFactor,
                    printed, saved, uncaught >>
    /\ page' = BlankPage
    /\ UNCHANGED submitted

\* const newPassword = await promptForPassword();
\* if (!newPassword) { await browser.close(); return null; }
PromptForPassword ==
    /\ pc = "newPassword"
    /\ \E input \in Passwords :
         IF input = ""
         THEN ops' = << Op("close", "browser", "") >> /\ CloseAndReturnNull
         ELSE /\ newPassword' = input
              /\ ops' = <<>>
              /\ pc' = "enterPasswordRetry"
              /\ UNCHANGED << browser, loginResult, typed, verdict, credentials, latestPassword, newCredentials, otpCode,
                              usernameEntered, usernameAttempts, passwordEntered,
                              passwordAttempts, otpRequired, otpSuccess, otpAttempts >>
    /\ UNCHANGED << exitCode, harvestVars, exhausted, secondFactor,
                    printed, saved, uncaught >>
    /\ page' = BlankPage
    /\ UNCHANGED submitted

\* ... passwordEntered = await enterPassword(page, newPassword); }
\* (const newPassword belongs to the loop body and ends with it)
EnterPasswordRetry ==
    /\ pc = "enterPasswordRetry"
    /\ \E r \in EnterPasswordRuns[newPassword] :
         /\ passwordEntered' = r.ok
         /\ ops' = r.ops
         /\ page' = r.page
    /\ newPassword' = ""
    /\ pc' = "passwordLoop"
    /\ UNCHANGED << browser, exitCode, typed, verdict, credentials, latestPassword, newCredentials, otpCode,
                    usernameEntered, usernameAttempts, passwordAttempts, otpRequired, otpSuccess,
                    otpAttempts, loginResult, harvestVars, exhausted, secondFactor,
                    printed, saved, uncaught >>
    /\ submitted' = [submitted EXCEPT !.password = @ + 1]

\* if (!passwordEntered) { await browser.close(); return null; }
PasswordExhausted ==
    /\ pc = "passwordLoop"
    /\ ~passwordEntered /\ ~(passwordAttempts > 1)
    /\ exhausted' = "password"
    /\ ops' = << Op("close", "browser", "") >>
    /\ CloseAndReturnNull
    /\ UNCHANGED << exitCode, harvestVars, secondFactor,
                    printed, saved, uncaught >>
    /\ page' = BlankPage
    /\ UNCHANGED submitted

\* const otpRequired = await isMFARequired(page);
\* if (otpRequired) { let otpSuccess = false; let otpAttempts = 3; ...
CheckMFA ==
    /\ pc = "passwordLoop"
    /\ passwordEntered
    /\ \E r \in IsMFARequiredRuns :
         /\ otpRequired' = r.ok
         /\ ops' = r.ops
         /\ page' = r.page
         /\ pc' = IF r.ok THEN "otpLoop" ELSE "finalCheck"
    /\ otpSuccess' = FALSE
    /\ otpAttempts' = OtpAttempts
    /\ UNCHANGED << browser, exitCode, typed, verdict, credentials, latestPassword, newCredentials, newPassword, otpCode,
                    usernameEntered, usernameAttempts, passwordEntered, passwordAttempts,
                    loginResult, harvestVars, exhausted, secondFactor,
                    printed, saved, uncaught >>
    /\ UNCHANGED submitted

\* while (!otpSuccess && otpAttempts > 0) { const otpCode = await promptForMFA(otpAttempts);
\* if (!otpCode) { await browser.close(); return null; } ...
PromptForMFA ==
    /\ pc = "otpLoop"
    /\ ~otpSuccess /\ otpAttempts > 0
    /\ \E input \in OtpCodes :
         IF input = ""
         THEN ops' = << Op("close", "browser", "") >> /\ CloseAndReturnNull
         ELSE /\ otpCode' = input
              /\ ops' = <<>>
              /\ pc' = "submitMFACode"
              /\ UNCHANGED << browser, loginResult, typed, verdict, credentials, latestPassword, newCredentials, newPassword,
                              usernameEntered, usernameAttempts, passwordEntered,
                              passwordAttempts, otpRequired, otpSuccess, otpAttempts >>
    /\ UNCHANGED << exitCode, harvestVars, exhausted, secondFactor,
                    printed, saved, uncaught >>
    /\ page' = BlankPage
    /\ UNCHANGED submitted

\* ... otpSuccess = await submitMFACode(page, otpCode); if (!otpSuccess) otpAttempts--; }
SubmitMFACode ==
    /\ pc = "submitMFACode"
    /\ \E r \in SubmitMFACodeRuns[otpCode] :
         /\ otpSuccess' = r.ok
         /\ otpAttempts' = IF r.ok THEN otpAttempts ELSE otpAttempts - 1
         /\ ops' = r.ops
         /\ page' = r.page
         /\ secondFactor' = (secondFactor \/ r.ok)
    /\ otpCode' = ""
    /\ pc' = "otpLoop"
    /\ UNCHANGED << browser, exitCode, typed, verdict, credentials, latestPassword, newCredentials, newPassword,
                    usernameEntered, usernameAttempts, passwordEntered, passwordAttempts,
                    otpRequired, loginResult, harvestVars, exhausted,
                    printed, saved, uncaught >>
    /\ submitted' = [submitted EXCEPT !.otp = @ + 1]

\* if (!otpSuccess) { await browser.close(); return null; }
OtpExhausted ==
    /\ pc = "otpLoop"
    /\ ~otpSuccess /\ ~(otpAttempts > 0)
    /\ exhausted' = "otp"
    /\ ops' = << Op("close", "browser", "") >>
    /\ CloseAndReturnNull
    /\ UNCHANGED << exitCode, harvestVars, secondFactor,
                    printed, saved, uncaught >>
    /\ page' = BlankPage
    /\ UNCHANGED submitted

\* Variant of StillOnLoginPage that looks for the workflow container only.
OnlyWorkflowContainer(f) == ".auth-workflow" \in f.vis

\* const stillOnLoginPage = await page.isVisible('#ap_password, #ap_email, .auth-workflow');
StillOnLoginPage(f) == AnyVisible(f, AUTH_WORKFLOW_PARTS)

\* await page.waitForTimeout(3000); stillOnLoginPage ...; return { success, page }
FinalCheck ==
    /\ \/ pc = "finalCheck"
       \/ pc = "otpLoop" /\ otpSuccess
    /\ \E f \in FinalPages, t \in ThrowAts :
         /\ page' = f
         /\ LET calls == << Op("waitForTimeout", "3000", ""),
                            Op("isVisible", AUTH_WORKFLOW, Bool(StillOnLoginPage(f))) >>
            IN  IF t \in 1..Len(calls)
                THEN ops' = SubSeq(calls, 1, t) /\ ToLoginCatch /\ UNCHANGED loginVars
                ELSE IF StillOnLoginPage(f)
                THEN ops' = calls \o << Op("close", "browser", "") >> /\ CloseAndReturnNull
                ELSE /\ ops' = calls
                     /\ loginResult' = "success"
                     /\ pc' = "main"
                     /\ LocalsEnd
                     /\ UNCHANGED browser
    /\ UNCHANGED << exitCode, harvestVars, exhausted, secondFactor,
                    printed, saved, uncaught >>
    /\ UNCHANGED submitted

\* Variant of LoginCatch that starts the login again instead of giving up.
LoginCatchRetrying ==
    /\ pc = "loginCatch"
    /\ \E thrown \in BOOLEAN :
         IF thrown
         THEN /\ ops' = << Op("screenshot", "login-unexpected-error.png", "") >>
              /\ exitCode' = "1"
              /\ pc' = "exited"
              /\ LocalsEnd
              /\ uncaught' = TRUE
              /\ UNCHANGED << browser, loginResult >>
         ELSE /\ ops' = << Op("screenshot", "login-unexpected-error.png", ""),
                           Op("close", "browser", "") >>
              /\ pc' = "navigateToAmazonLogin"
              /\ LocalsEnd
              /\ UNCHANGED << browser, loginResult, exitCode, uncaught >>
    /\ UNCHANGED << harvestVars, exhausted, secondFactor,
                    printed, saved >>
    /\ page' = BlankPage
    /\ UNCHANGED submitted

\* Variant of LoginCatch that closes the browser before it takes the screenshot.
LoginCatchClosingFirst ==
    /\ pc = "loginCatch"
    /\ \E thrown \in BOOLEAN :
         IF thrown
         THEN /\ ops' = << Op("close", "browser", ""),
                           Op("screenshot", "login-unexpected-error.png", "") >>
              /\ exitCode' = "1"
              /\ pc' = "exited"
              /\ LocalsEnd
              /\ uncaught' = TRUE
              /\ browser' = "closed"
              /\ UNCHANGED loginResult
         ELSE /\ ops' = << Op("close", "browser", ""),
                           Op("screenshot", "login-unexpected-error.png", "") >>
              /\ CloseAndReturnNull
              /\ UNCHANGED << exitCode, uncaught >>
    /\ UNCHANGED << harvestVars, exhausted, secondFactor,
                    printed, saved >>
    /\ page' = BlankPage
    /\ UNCHANGED submitted

\* catch (error) { await page.screenshot(...); await browser.close(); return null; }
\* when the screenshot throws too, handleLogin rejects and main's catch exits
LoginCatch ==
    /\ pc = "loginCatch"
    /\ \E thrown \in BOOLEAN :
         IF thrown
         THEN /\ ops' = << Op("screenshot", "login-unexpected-error.png", "") >>
              /\ exitCode' = "1"
              /\ pc' = "exited"
              /\ LocalsEnd
              /\ uncaught' = TRUE
              /\ UNCHANGED << browser, loginResult >>
         ELSE /\ ops' = << Op("screenshot", "login-unexpected-error.png", ""),
                           Op("close", "browser", "") >>
              /\ CloseAndReturnNull
              /\ UNCHANGED << exitCode, uncaught >>
    /\ UNCHANGED << harvestVars, exhausted, secondFactor,
                    printed, saved >>
    /\ page' = BlankPage
    /\ UNCHANGED submitted

\* main: if (!loginResult || !loginResult.success) { process.exit(1); }
MainLoginFailed ==
    /\ pc = "main"
    /\ loginResult = "null"
    /\ exitCode' = "1"
    /\ pc' = "exited"
    /\ ops' = <<>>
    /\ UNCHANGED << browser, loginVars, loginResult, harvestVars, exhausted, secondFactor,
                    printed, saved, uncaught >>
    /\ page' = BlankPage
    /\ UNCHANGED submitted

(***************************************************************************)
(* index.ts: scrapeOrders and the rest of main                             *)
(***************************************************************************)
\* possibleOrderUrls.some(urlPart => currentUrl.includes(urlPart))
MightBeOnOrdersPage(currentUrl) ==
    \/ includes(currentUrl, "order-history")
    \/ includes(currentUrl, "your-orders")
    \/ includes(currentUrl, "gp/css/order-history")
    \/ includes(currentUrl, "gp/your-account/order-history")

\* ordersCollected.slice(0, 10)
Slice(list, n) == SubSeq(list, 1, IF Len(list) < n THEN Len(list) ELSE n)

\* Variant of YearLoopGoesOn without the lower end of the year range.
YearLoopWithoutFloor ==
    /\ Len(ordersCollected) < Quota
    /\ yearsScraped < MaxYears

\* Variant of YearLoopGoesOn without the quota test.
YearLoopWithoutQuota ==
    /\ year >= CurrentYear - YearsBack
    /\ yearsScraped < MaxYears

\* the condition of the year loop
YearLoopGoesOn ==
    /\ year >= CurrentYear - YearsBack
    /\ Len(ordersCollected) < Quota
    /\ yearsScraped < MaxYears

\* main: const orders = await scrapeOrders(loginResult.page);
\* scrapeOrders: const navigatedToOrderHistory = await navigateToOrderHistory(page);
\* ... const ordersCollected = []; let yearsScraped = 0; year = currentYear
CallScrapeOrders ==
    /\ pc = "main"
    /\ loginResult = "success"
    /\ scrapeCalled' = TRUE
    /\ \E r \in NavigateToOrderHistoryRuns :
         /\ ops' = r.ops
         /\ url' = r.url
         /\ pc' = IF r.ok THEN "yearLoop" ELSE "notNavigated"
    /\ ordersCollected' = <<>>
    /\ year' = CurrentYear
    /\ yearsScraped' = 0
    /\ UNCHANGED << browser, exitCode, loginVars, loginResult, cards, looseLinks, scriptRan,
                    extracted, orders, navs, exhausted, secondFactor,
                    printed, saved, uncaught >>
    /\ page' = BlankPage
    /\ UNCHANGED submitted

\* if (!navigatedToOrderHistory) { await page.screenshot(...); const currentUrl = page.url();
\* ... if (mightBeOnOrdersPage) {...} return []; }   A screenshot that throws
\* rejects scrapeOrders, and main's catch block exits.
NotNavigated ==
    /\ pc = "notNavigated"
    /\ ops' = << Op("screenshot", "orders-page-state.png", "") >>
    /\ \E thrown \in BOOLEAN :
         IF thrown
         THEN /\ exitCode' = "1"
              /\ pc' = "exited"
              /\ uncaught' = TRUE
              /\ UNCHANGED orders
         ELSE IF MightBeOnOrdersPage(url)
         THEN /\ pc' = "extractDirectly"
              /\ UNCHANGED << exitCode, orders, uncaught >>
         ELSE /\ orders' = <<>>
              /\ pc' = "output"
              /\ UNCHANGED << exitCode, uncaught >>
    /\ UNCHANGED << browser, loginVars, loginResult, url, cards, looseLinks, scriptRan,
                    extracted, ordersCollected, year,
                    yearsScraped, scrapeCalled, navs, exhausted, secondFactor,
                    printed, saved >>
    /\ page' = BlankPage
    /\ UNCHANGED submitted

\* const orders = await extractOrders(page); return orders;
ExtractDirectly ==
    /\ pc = "extractDirectly"
    /\ \E r \in ExtractOrdersRuns :
         /\ cards' = r.cards
         /\ looseLinks' = r.links
         /\ scriptRan' = r.ran
         /\ extracted' = r.orders
         /\ orders' = r.orders
         /\ ops' = r.ops
    /\ pc' = "output"
    /\ UNCHANGED << browser, exitCode, loginVars, loginResult, url, ordersCollected, year,
                    yearsScraped, scrapeCalled, navs, exhausted, secondFactor,
                    printed, saved, uncaught >>
    /\ page' = BlankPage
    /\ UNCHANGED submitted

\* Variant of SelectOrderYear in which a failed year navigation leaves the
\* year where it was.
SelectOrderYearStaying ==
    /\ pc = "yearLoop"
    /\ YearLoopGoesOn
    /\ navs' = Append(navs, year)
    /\ \E r \in SelectOrderYearRunsOf(year) :
         /\ ops' = r.ops
         /\ IF r.ok
            THEN pc' = "extractOrders" /\ UNCHANGED year
            ELSE pc' = "yearLoop" /\ UNCHANGED year
    /\ url' = ORDER_HISTORY_YEAR(year)
    /\ UNCHANGED << browser, exitCode, loginVars, loginResult, cards, looseLinks, scriptRan,
                    extracted, ordersCollected,
                    yearsScraped, orders, scrapeCalled, exhausted, secondFactor,
                    printed, saved, uncaught >>
    /\ page' = BlankPage
    /\ UNCHANGED submitted

\* for (...; year--) { const yearSelected = await selectOrderYear(page, year);
\* if (!yearSelected) continue; ...
SelectOrderYear ==
    /\ pc = "yearLoop"
    /\ YearLoopGoesOn
    /\ navs' = Append(navs, year)
    /\ \E r \in SelectOrderYearRunsOf(year) :
         /\ ops' = r.ops
         /\ IF r.ok
            THEN pc' = "extractOrders" /\ UNCHANGED year
            ELSE pc' = "yearLoop" /\ year' = year - 1
    /\ url' = ORDER_HISTORY_YEAR(year)
    /\ UNCHANGED << browser, exitCode, loginVars, loginResult, cards, looseLinks, scriptRan,
                    extracted, ordersCollected,
                    yearsScraped, orders, scrapeCalled, exhausted, secondFactor,
                    printed, saved, uncaught >>
    /\ page' = BlankPage
    /\ UNCHANGED submitted

\* Variant of ExtractOrders whose result depends on a counter kept between
\* calls: the first yearsScraped records of the page are left out.
ExtractOrdersCounting ==
    /\ pc = "extractOrders"
    /\ \E r \in ExtractOrdersRuns :
         LET kept == SubSeq(r.orders, yearsScraped + 1, Len(r.orders))
         IN  /\ cards' = r.cards
             /\ looseLinks' = r.links
             /\ scriptRan' = r.ran
             /\ extracted' = kept
             /\ ordersCollected' = ordersCollected \o kept
             /\ ops' = r.ops
    /\ yearsScraped' = yearsScraped + 1
    /\ year' = year - 1
    /\ pc' = "yearLoop"
    /\ UNCHANGED << browser, exitCode, loginVars, loginResult, url, orders, scrapeCalled,
                    navs, exhausted, secondFactor,
                    printed, saved, uncaught >>
    /\ page' = BlankPage
    /\ UNCHANGED submitted

\* ... const orders = await extractOrders(page); ordersCollected.push(...orders);
\* yearsScraped++; }
ExtractOrders ==
    /\ pc = "extractOrders"
    /\ \E r \in ExtractOrdersRuns :
         /\ cards' = r.cards
         /\ looseLinks' = r.links
         /\ scriptRan' = r.ran
         /\ extracted' = r.orders
         /\ ordersCollected' = ordersCollected \o r.orders
         /\ ops' = r.ops
    /\ yearsScraped' = yearsScraped + 1
    /\ year' = year - 1
    /\ pc' = "yearLoop"
    /\ UNCHANGED << browser, exitCode, loginVars, loginResult, url, orders, scrapeCalled,
                    navs, exhausted, secondFactor,
                    printed, saved, uncaught >>
    /\ page' = BlankPage
    /\ UNCHANGED submitted

\* return ordersCollected.slice(0, 10);
ReturnOrders ==
    /\ pc = "yearLoop"
    /\ ~YearLoopGoesOn
    /\ orders' = Slice(ordersCollected, Quota)
    /\ ops' = <<>>
    /\ pc' = "output"
    /\ UNCHANGED << browser, exitCode, loginVars, loginResult, url, cards, looseLinks,
                    scriptRan, extracted, ordersCollected,
                    year, yearsScraped, scrapeCalled, navs, exhausted, secondFactor,
                    printed, saved, uncaught >>
    /\ page' = BlankPage
    /\ UNCHANGED submitted

\* console.log(JSON.stringify(orders));
\* try { fs.writeFileSync(outputFile, ...) } catch (fileError) { console.error(...) }
\* const context = await result.page.context(); await context.browser().close();
Output ==
    /\ pc = "output"
    /\ ops' = << Op("close", "browser", "") >>
    /\ browser' = "closed"
    /\ exitCode' = "0"
    /\ pc' = "exited"
    /\ printed' = TRUE
    /\ \E written \in BOOLEAN : saved' = written
    /\ UNCHANGED << loginVars, loginResult, harvestVars, exhausted, secondFactor,
                    uncaught >>
    /\ page' = BlankPage
    /\ UNCHANGED submitted

Next ==
    \/ InitBrowser
    \/ NavigateToAmazonLogin
    \/ PromptUsername
    \/ PromptCredentialsPassword
    \/ EnterUsernameFirst
    \/ UsernameRetry
    \/ EnterUsernameRetry
    \/ UsernameExhausted
    \/ EnterPasswordFirst
    \/ PasswordRetry
    \/ PromptForPassword
    \/ EnterPasswordRetry
    \/ PasswordExhausted
    \/ CheckMFA
    \/ PromptForMFA
    \/ SubmitMFACode
    \/ OtpExhausted
    \/ FinalCheck
    \/ LoginCatch
    \/ MainLoginFailed
    \/ CallScrapeOrders
    \/ NotNavigated
    \/ ExtractDirectly
    \/ SelectOrderYear
    \/ ExtractOrders
    \/ ReturnOrders
    \/ Output

Spec == Init /\ [][Next]_vars

\* The answer to a prompt that lets the prompt return: inquirer asks the
\* username and the password question again until validate accepts.
PromptReturns ==
    \/ PromptUsername /\ pc' # pc
    \/ PromptCredentialsPassword /\ pc' # pc

\* Every awaited driver call, prompt and step of main returns: the program
\* does not stop while a step is possible, and no prompt is answered with
\* rejected input for ever.
FairSpec == Spec /\ WF_vars(Next) /\ WF_vars(PromptReturns)

(***************************************************************************)
(* Properties                                                              *)
(***************************************************************************)

\* C1: when the username, the password or the verification-code stage has
\* used up its attempts without a success signal, handleLogin returns null
\* (Failed), and scrapeOrders is never called with the page.
C1_ExhaustedStageFails ==
    [][ /\ ( \/ pc = "usernameLoop" /\ ~usernameEntered /\ usernameAttempts <= 1
             \/ pc = "passwordLoop" /\ ~passwordEntered /\ passwordAttempts <= 1
             \/ pc = "otpLoop" /\ ~otpSuccess /\ otpAttempts <= 0 )
           => (loginResult' = "null" /\ pc' = "main" /\ exhausted' # "none")
        /\ exhausted' # "none"
           => (loginResult' = "null" /\ ~scrapeCalled' /\ pc' \in {"main", "exited"})
      ]_vars

\* the verification-code stage ran out of attempts and the run has ended
C1_Witness == exhausted = "otp" /\ pc = "exited" /\ exitCode = "1" /\ ~scrapeCalled

\* C2: on every path of scrapeOrders (the year loop, and the direct
\* extraction after navigateToOrderHistory reported failure) the list handed
\* to the result sink has at most 10 records.
C2_AtMostTenRecords == pc \in {"output", "exited"} => Len(orders) <= 10

\* C3: scrapeOrders calls selectOrderYear at most 5 times, each time for a
\* different year, in strictly descending order from the current year and
\* never below the current year minus 4, also when selections fail.
C3_YearNavigations ==
    /\ Len(navs) <= 5
    /\ navs # <<>> => navs[1] = CurrentYear
    /\ \A i \in 1..Len(navs) : navs[i] >= CurrentYear - 4
    /\ \A i, j \in 1..Len(navs) : i < j => navs[i] > navs[j]

\* five years were selected, some of the selections failed
C3_Witness == pc = "exited" /\ Len(navs) = 5 /\ yearsScraped > 0 /\ yearsScraped < 5

\* C4: every record extractOrders returns, and so every record kept in the
\* accumulator and in the result, has at least one item; a card that yields
\* no item adds no record.
C4_RetainedRecordsHaveItems ==
    /\ \A i \in 1..Len(ordersCollected) : Len(ordersCollected[i].items) >= 1
    /\ \A i \in 1..Len(orders) : Len(orders[i].items) >= 1
    /\ (pc = "output" /\ navs = <<>>)
       => Len(orders) = Cardinality({ i \in 1..Len(cards) :
                                        cards[i].group /\ CardItems(cards[i]) # <<>> })

\* a page with a card that yields no item has been extracted, and records of
\* its other cards were kept
C4_Witness ==
    /\ pc = "yearLoop"
    /\ \E i \in 1..Len(cards) : cards[i].group /\ CardItems(cards[i]) = <<>>
    /\ Len(ordersCollected) > 0

\* C5: on every exit path (success, each login failure, an error thrown
\* during login or during harvesting) the browser has been closed before
\* the process ends.
C5_BrowserClosedAtExit == pc = "exited" => browser # "open"

\* C6: an identifier that validateCredentials classifies as unknown never
\* reaches the page driver (no fill of the email field, no click on Continue
\* for it); the prompt is repeated and no username attempt is consumed.
C6_UnknownIdentifierGated ==
    [][ /\ \A i \in 1..Len(ops') :
             /\ (ops'[i][1] = "fill" /\ ops'[i][2] = EMAIL_FIELD)
                => validateCredentials(ops'[i][3]).type \in {"email", "phone"}
             /\ (ops'[i][1] = "click" /\ ops'[i][2] = CONTINUE_BUTTON)
                => \E j \in 1..(i - 1) :
                      /\ ops'[j][1] = "fill" /\ ops'[j][2] = EMAIL_FIELD
                      /\ validateCredentials(ops'[j][3]).type \in {"email", "phone"}
        /\ credentials'.username # ""
           => validateCredentials(credentials'.username).type \in {"email", "phone"}
        /\ newCredentials'.username # ""
           => validateCredentials(newCredentials'.username).type \in {"email", "phone"}
        /\ (pc \in {"credentials.username", "newCredentials.username"} /\ typed' # "")
           => /\ validateCredentials(typed').type = "unknown"
              /\ pc' = pc
              /\ ops' = <<>>
              /\ usernameAttempts' = usernameAttempts
              /\ credentials' = credentials /\ newCredentials' = newCredentials
      ]_vars

\* in a retry of the username stage an unknown identifier has just been typed
C6_Witness ==
    /\ pc = "newCredentials.username"
    /\ typed = "abc"
    /\ usernameAttempts = 2

\* C7: handleLogin reports success, and the page goes to the harvester, only
\* if the final check found none of the email field, the password field and
\* the auth-workflow container visible, with or without a second factor.
C7_SuccessOnlyOffLoginPage ==
    /\ (loginResult = "success" /\ pc = "main")
       => /\ page.vis \cap {"#ap_email", "#ap_password", ".auth-workflow"} = {}
          /\ ops = << Op("waitForTimeout", "3000", ""),
                      Op("isVisible", "#ap_password, #ap_email, .auth-workflow", "false") >>
    /\ scrapeCalled => loginResult = "success"

\* success after a second factor
C7_Witness == loginResult = "success" /\ pc = "main" /\ secondFactor

C9_AlertDecidesAlone ==
    (pc = "passwordLoop" /\ Len(ops) > 2 /\ page.alert # NoAlert)
    => (passwordEntered
        <=> (\E word \in {"code", "verification", "otp", "wait 60 seconds"} :
                includes(toLowerCase(page.alert), word)))

\* C9 (amended): in the password stage, when the second-factor detector has
\* not reported a second factor, the alert "Your password is incorrect" is
\* not visible, and the check for a generic alert finds one visible, the
\* stage reports success (second factor pending) if the alert text contains,
\* letter case ignored, one of "code", "verification", "otp", "wait 60
\* seconds", and failure if it contains none of them.
C9_AlertDecidesWhenReached ==
    (/\ pc = "passwordLoop"
     /\ \E i \in 1..Len(ops) : ops[i] = Op("isVisible", ERROR_CONTAINER, "true"))
    => (/\ page.alert # NoAlert
        /\ \E i \in 1..Len(ops) : ops[i] = Op("isVisible", INCORRECT_PASSWORD_ALERT, "false")
        /\ (passwordEntered
            <=> (\E word \in {"code", "verification", "otp", "wait 60 seconds"} :
                    includes(toLowerCase(page.alert), word))))

\* the alert "Enter the OTP sent, wait 60 seconds" was read and the stage
\* reported success
C9_Witness ==
    /\ pc = "passwordLoop"
    /\ passwordEntered
    /\ page.alert = "Enter the OTP sent, wait 60 seconds"
    /\ \E i \in 1..Len(ops) : ops[i] = Op("isVisible", ERROR_CONTAINER, "true")

\* C10: the year loop selects no further year once the accumulator holds 10
\* or more records: when the current year alone yields 12 records the result
\* is the first 10 of them and the previous year is not navigated to.
C10_QuotaStopsYearLoop ==
    [][ /\ (Len(ordersCollected) >= 10) => (navs' = navs)
        /\ (pc = "yearLoop" /\ Len(ordersCollected) >= 10)
           => (pc' = "output" /\ orders' = SubSeq(ordersCollected, 1, 10))
      ]_vars

\* the current year yielded more than 10 records, 10 were handed on and no
\* other year was selected
C10_Witness ==
    /\ pc = "exited"
    /\ navs = << CurrentYear >>
    /\ Len(ordersCollected) > 10
    /\ orders = SubSeq(ordersCollected, 1, 10)

\* C11: when no order card matches on the settled page (the script ran and
\* saw none) and the page shows two product-detail links, each with a price
\* node next to it, extractOrders returns two records of one item each.
C11_LinkFallback ==
    (scriptRan /\ cards = <<>> /\ Len(looseLinks) = 2)
    => /\ Len(extracted) = 2
       /\ \A i \in 1..Len(extracted) : Len(extracted[i].items) = 1

C13_AnyDomainSuffix ==
    verdict # NoVerdict
    => LET given == verdict.input
           email == /\ includes(given, "@")
                    /\ \E suffix \in {".com", ".org", ".net", ".in"} : includes(given, suffix)
           phone == /\ Len(given) = 10
                    /\ \A i \in 1..Len(given) :
                          SubSeq(given, i, i) \in {"0", "1", "2", "3", "4", "5", "6", "7", "8", "9"}
       IN  /\ (verdict.type = "email") <=> email
           /\ (verdict.type = "phone") <=> phone
           /\ (verdict.type = "unknown") <=> (~email /\ ~phone)
           /\ verdict.isValid <=> (email \/ phone)

\* C14: a run ends with a non-zero exit exactly when login failed (handleLogin
\* returned null) or an error reached main's catch block; a run that ends
\* with a zero exit has logged in, printed the JSON result to the console
\* and written it to the output file, also when no order was extracted.
C14_ExitBehaviour ==
    pc = "exited"
    => /\ (exitCode # "0") <=> (loginResult = "null" \/ uncaught)
       /\ (exitCode = "0") => (loginResult = "success" /\ printed /\ saved)

C16_ThreeRetriesAllowed ==
    /\ (exhausted = "username") => (submitted.username - 1 = 3)
    /\ (exhausted = "password") => (submitted.password - 1 = 3)
    /\ (exhausted = "otp") => (submitted.otp - 1 = 3)

\* C17: when the final check of handleLogin finds a login-page landmark still
\* visible, the login cycle starts again with a fresh navigation to the
\* login URL while an overall attempt budget remains. handleLogin is called
\* once per run, so the final check it makes is the first of the run and an
\* overall budget cannot be used up at that point.
C17_FinalGateRestarts ==
    [][ (/\ \/ pc = "finalCheck"
            \/ pc = "otpLoop" /\ otpSuccess
         /\ pc' # "loginCatch"
         /\ StillOnLoginPage(page'))
        => (pc' = "navigateToAmazonLogin" /\ browser' = "open" /\ loginResult' = "pending") ]_vars

C19_Checked ==
    /\ pc \in {"finalCheck", "otpLoop"}
    /\ Len(ops) > 0
    /\ ops[1] = Op("screenshot", "possible-otp-page.png", "")

\* ... and the call went as one in which no driver call throws
C19_NothingThrown ==
    /\ ops = isMFARequiredBody(page).ops
    /\ otpRequired = isMFARequiredBody(page).ok

C19_AddressOrTitle ==
    \/ includes(page.url, "/ap/mfa")
    \/ includes(page.title, "Verification")
    \/ includes(page.title, "OTP")

C19_InputOrPhrase ==
    \/ FirstVisible(page, MFA_SELECTORS) # 0
    \/ BodyHasIndicator(page.body)

C19_SignInAddress ==
    includes(page.url, "/ap/signin") /\ includes(page.url, "openid.pape.max_auth_age=0")

\* C19: isMFARequired answers true whenever one of its signals is positive
\* (the /ap/mfa fragment in the address, a verification word in the title, a
\* visible second-factor input, one of the phrases in the body text), on
\* any address.
C19_AnySignalOnAnyAddress ==
    (C19_Checked /\ C19_NothingThrown)
    => ((C19_AddressOrTitle \/ C19_InputOrPhrase) => otpRequired)

\* C19, amended: the address and the title count on every page, the visible
\* inputs and the body phrases only on the sign-in address with
\* openid.pape.max_auth_age=0; isMFARequired answers true only if one of these
\* is positive, and always then unless a driver call throws.
C19_InputsOnlyOnSignInAddress ==
    /\ C19_Checked
       => (otpRequired => (C19_AddressOrTitle \/ (C19_SignInAddress /\ C19_InputOrPhrase)))
    /\ (C19_Checked /\ C19_NothingThrown)
       => ((C19_AddressOrTitle \/ (C19_SignInAddress /\ C19_InputOrPhrase)) => otpRequired)

\* a second-factor form is visible on the home address and the answer is no;
\* the same form on the sign-in address gives yes
C19_Witness ==
    /\ C19_Checked
    /\ C19_NothingThrown
    /\ C19_InputOrPhrase
    /\ ~C19_AddressOrTitle
    /\ otpRequired = C19_SignInAddress

\* C20: a call of submitMFACode from the OTP loop gives success only if the
\* code was filled in and, after that, isMFARequired answered false and the
\* error container was found not visible; when isMFARequired answers true or
\* the error container is visible the call gives failure; and every failure
\* takes one from otpAttempts while a success takes none.
C20_SuccessNeedsBothChecks ==
    [][ (pc = "submitMFACode" /\ pc' = "otpLoop")
        => /\ otpSuccess'
              => \E i, j \in 1..(Len(ops') - 1) :
                   /\ i < j
                   /\ ops'[i][1] = "fill" /\ ops'[i][3] = otpCode
                   /\ ops'[j] = Op("isMFARequired", "", Bool(FALSE))
                   /\ ops'[j + 1] = Op("isVisible", ERROR_CONTAINER, Bool(FALSE))
                   /\ ~AlertVisible(page')
           /\ (\E j \in 1..Len(ops') :
                  \/ ops'[j] = Op("isMFARequired", "", Bool(TRUE))
                  \/ ops'[j] = Op("isVisible", ERROR_CONTAINER, Bool(TRUE)))
              => ~otpSuccess'
           /\ otpAttempts' = (IF otpSuccess' THEN otpAttempts ELSE otpAttempts - 1) ]_vars

\* the alert check alone has failed a code, and the attempt is gone
C20_Witness ==
    /\ pc = "otpLoop"
    /\ ~otpSuccess
    /\ otpAttempts = OtpAttempts - 1
    /\ \E j \in 1..(Len(ops) - 1) :
         /\ ops[j] = Op("isMFARequired", "", Bool(FALSE))
         /\ ops[j + 1] = Op("isVisible", ERROR_CONTAINER, Bool(TRUE))

\* C21: navigateToOrderHistory goes to the order-history URL itself and
\* probes the order-page indicators there in both cases: when page.$ finds no
\* orders link, and when the link was clicked and the polling loop ended
\* after its last round without an order-page signal.
C21_FallbackInBothCases ==
    (Len(ops) > 1 /\ ops[1][1] = "$")
    => /\ (ops[1][3] = Bool(FALSE))
          => /\ ops[2] = Op("goto", ORDER_HISTORY_URL, "")
             /\ (pc = "yearLoop") => (Len(ops) > 2 /\ ops[3][1] = "isVisible")
       /\ (/\ ops[2][1] = "click"
           /\ ops[Len(ops)] = Op("screenshot", "order-page-check.png", "")
           /\ pc = "notNavigated")
          => \E i \in 1..Len(ops) : ops[i] = Op("goto", ORDER_HISTORY_URL, "")

\* C22: a call of selectOrderYear never ends the harvest and never touches
\* the records collected so far: when it fails the loop goes on with the
\* year before, otherwise (order content seen or not) the page is extracted
\* and the year before follows; the collection only ever grows at
\* its end, a year is tried only while fewer than Quota records are held,
\* and the loop returns the first Quota records of the collection.
C22_YearFailureKeepsRecords ==
    [][ /\ (pc = "yearLoop" /\ navs' # navs)
           => /\ Len(ordersCollected) < Quota
              /\ ordersCollected' = ordersCollected
              /\ exitCode' = "running"
              /\ pc' \in {"yearLoop", "extractOrders"}
              /\ (pc' = "yearLoop") => (year' = year - 1)
        /\ (pc = "extractOrders")
           => /\ pc' = "yearLoop"
              /\ year' = year - 1
              /\ ordersCollected' = ordersCollected \o extracted'
        /\ (pc = "yearLoop" /\ pc' # "yearLoop" /\ navs' = navs)
           => /\ pc' = "output"
              /\ orders' = SubSeq(ordersCollected, 1,
                                  IF Len(ordersCollected) < Quota THEN Len(ordersCollected) ELSE Quota)
      ]_vars

\* the navigation to the second year has failed after the first year gave
\* records, and the loop stands at the third year with the records kept
C22_Witness ==
    /\ pc = "yearLoop"
    /\ Len(ops) > 0 /\ ops[Len(ops)][1] # "evaluate"
    /\ ops[1][1] = "goto"
    /\ yearsScraped = 1
    /\ year = CurrentYear - 2
    /\ Len(ordersCollected) > 0

\* navigateToAmazonLogin has thrown (page.goto, or the wait that follows it)
C23_NavigationFailed ==
    /\ pc = "loginCatch"
    /\ Len(ops) \in {1, 2}
    /\ ops[1] = Op("goto", LOGIN_URL, "")

\* C23: once the first navigation to the login URL has failed, the run only
\* goes through handleLogin's catch block and main's failure exit: no other
\* goto is made, no prompt is reached, no stage function is called,
\* scrapeOrders is never called with a page, and the exit status is never 0.
C23_NavigationFailureIsFatal ==
    [](C23_NavigationFailed
       => [](/\ pc \in {"loginCatch", "main", "exited"}
             /\ (pc # "loginCatch") => (\A i \in 1..Len(ops) : ops[i][1] # "goto")
             /\ submitted = NoSubmissions
             /\ loginResult # "success"
             /\ ~scrapeCalled
             /\ exitCode \in {"running", "1"}
             /\ (pc = "exited") => (exitCode = "1")))

\* the run has ended with status 1 through the catch block, with no stage
\* function ever called: only the first navigation can have failed
C23_Witness ==
    /\ pc = "exited"
    /\ exitCode = "1"
    /\ loginResult = "null"
    /\ browser = "closed"
    /\ submitted = NoSubmissions

\* C24: at the password question of promptForCredentials and at the retry
\* prompt promptForPassword alike, an empty password is never passed on: the
\* step either accepts a password that is not empty, or asks again with no
\* driver call made, no attempt counter changed and the login still running.
C24_EmptyPasswordReprompted ==
    [][ LET asksAgain == /\ pc' = pc
                         /\ ops' = <<>>
                         /\ browser' = browser
                         /\ loginResult' = loginResult
                         /\ usernameAttempts' = usernameAttempts
                         /\ passwordAttempts' = passwordAttempts
                         /\ submitted' = submitted
        IN  /\ (pc = "credentials.password")
               => (asksAgain \/ (pc' = "enterUsername" /\ credentials'.password # ""))
            /\ (pc = "newCredentials.password")
               => (asksAgain \/ (pc' = "enterUsernameRetry" /\ newCredentials'.password # ""))
            /\ (pc = "newPassword")
               => (asksAgain \/ (pc' = "enterPasswordRetry" /\ newPassword' # "")) ]_vars

\* C25: handleLogin calls enterPassword only after a call of enterUsername
\* has returned true; it calls submitMFACode only after enterPassword has
\* returned true and isMFARequired has then returned true; and it makes its
\* final check (the 3 s wait and the look for login-page landmarks) only
\* after the username and password stages have succeeded and, where a second
\* factor was required, a code has been accepted.
C25_StageOrder ==
    [][ /\ (submitted'.password # submitted.password)
           => (usernameEntered /\ submitted.username > 0)
        /\ (submitted'.otp # submitted.otp)
           => (usernameEntered /\ passwordEntered /\ otpRequired /\ submitted.password > 0)
        /\ (Len(ops') > 0 /\ ops'[1] = Op("waitForTimeout", "3000", ""))
           => /\ usernameEntered /\ passwordEntered
              /\ submitted.username > 0 /\ submitted.password > 0
              /\ otpRequired => (otpSuccess /\ submitted.otp > 0) ]_vars

\* a login that went through every stage, with retries, has succeeded
C25_Witness ==
    /\ pc = "main"
    /\ loginResult = "success"
    /\ submitted.username > 1
    /\ submitted.password > 1
    /\ submitted.otp > 1

\* C26: when every driver call and every prompt returns, handleLogin comes to
\* an end in every run: it returns the logged-in page (Authenticated), or it
\* returns null or rejects into main's exit with status 1 (Failed).
C26_EngineTerminates ==
    <>(loginResult \in {"success", "null"} \/ (pc = "exited" /\ exitCode = "1"))

\* the username stage has used its three calls and handleLogin has returned null
C26_Witness ==
    /\ pc = "main"
    /\ loginResult = "null"
    /\ exhausted = "username"
    /\ submitted = [username |-> 3, password |-> 0, otp |-> 0]

\* C27: the orders a run puts out hold at most 10 product items in all,
\* every item of every order counted.
C27_AtMostTenItems == pc \in {"output", "exited"} => TotalItems(orders) <= 10

C29_Submitted ==
    /\ pc = "usernameLoop"
    /\ \E i \in 1..Len(ops) : ops[i] = Op("click", CONTINUE_BUTTON, "")

\* the alert shown after the click holds one of the four failure words
C29_FailureWord ==
    /\ AlertVisible(page)
    /\ \E w \in {"invalid", "cannot", "problem", "find"} : includes(toLowerCase(page.alert), w)

\* C29: after the click enterUsername looks first for the site's "Invalid
\* mobile number" alert, then for any alert with one of the words invalid,
\* cannot, problem, find, then for the password field. The first criterion
\* that applies makes the call fail without the later ones being looked at
\* (an alert with a failure word fails the call whether or not the password
\* field is visible), and the call succeeds only if none applies.
C29_FailureCriteriaInOrder ==
    C29_Submitted
    => /\ (\E i \in 5..Len(ops) : ops[i] = Op("isVisible", INVALID_MOBILE_ERROR, Bool(TRUE)))
          => /\ ~usernameEntered
             /\ \A i \in 1..Len(ops) : ops[i][2] \notin {ALERT_CONTENT, PASSWORD_FIELD}
       /\ (\E i \in 1..Len(ops) : ops[i][1] = "textContent" /\ C29_FailureWord)
          => /\ ~usernameEntered
             /\ \A i \in 1..Len(ops) : ops[i][2] # PASSWORD_FIELD
       /\ usernameEntered
          => /\ ops[Len(ops)] = Op("isVisible", PASSWORD_FIELD, Bool(TRUE))
             /\ PASSWORD_FIELD \in page.vis
             /\ ~AlertHasText(page, "Invalid mobile number")
             /\ ~C29_FailureWord
       /\ (ops[Len(ops)] = Op("isVisible", PASSWORD_FIELD, Bool(TRUE)))
          => usernameEntered
       /\ (ops[Len(ops)] = Op("isVisible", PASSWORD_FIELD, Bool(FALSE)))
          => ~usernameEntered

\* the password field is visible, and the alert "There was a problem" has
\* failed the call before the field was looked for
C29_Witness ==
    /\ C29_Submitted
    /\ ~usernameEntered
    /\ PASSWORD_FIELD \in page.vis
    /\ page.alert = "There was a problem"
    /\ ops[Len(ops)] = Op("screenshot", "username-error.png", "")

\* C30: every call of enterUsername that decides its outcome (by the invalid
\* mobile number alert, by an alert with a failure word, or by the look for
\* the password field), the first call and every retry alike, has filled the
\* identifier it was given into the email field and clicked continue first.
C30_EveryAttemptSubmits ==
    [][ (/\ pc \in {"enterUsername", "enterUsernameRetry"}
         /\ pc' = "usernameLoop"
         /\ \/ ops'[Len(ops')] = Op("screenshot", "invalid-mobile-error.png", "")
            \/ ops'[Len(ops')] = Op("screenshot", "username-error.png", "")
            \/ ops'[Len(ops')][2] = PASSWORD_FIELD)
        => \E i, j \in 1..Len(ops') :
             /\ i < j
             /\ ops'[i] = Op("fill", EMAIL_FIELD,
                             IF pc = "enterUsername" THEN credentials.username
                             ELSE newCredentials.username)
             /\ ops'[j] = Op("click", CONTINUE_BUTTON, "") ]_vars

\* C31: the password the first call of enterPassword types into the password
\* field is the one the user gave most recently at the credentials prompt:
\* after the username stage asked for credentials again, it is the password
\* given together with the identifier that was accepted, not the one given
\* with an identifier rejected earlier.
C31_LatestPasswordSubmitted ==
    [][ (pc = "usernameLoop" /\ pc' = "passwordLoop")
        => \A i \in 1..Len(ops') :
             (ops'[i][1] = "fill" /\ ops'[i][2] = PASSWORD_FIELD)
             => ops'[i][3] = latestPassword ]_vars

\* the complete runs of each stage function: no driver call threw into a
\* catch block of the function itself
C32_UsernameBodies ==
    [u \in Identifiers |->
        { enterUsernameBody(u, pre, post) : pre \in UsernamePrePages, post \in UsernamePostPages }]
C32_PasswordBodies ==
    [p \in Passwords \ {""} |->
        { enterPasswordBody(p, a, m, race, b)
          : a \in PasswordPostPages, m \in ThrowAts,
            race \in RaceOutcomes \ {"rejected"}, b \in SettledPages }]
C32_OtpBodies ==
    [code \in OtpCodes \ {""} |->
        { submitMFACodeBody(code, s, TRUE, after, m)
          : s \in OtpPages, after \in OtpAfterPages, m \in ThrowAts }]
C32_MfaBodies == { isMFARequiredBody(s) : s \in MfaCheckPages }
C32_NavBodies ==
    { navigateToOrderHistoryBody(s, land, arrive, 0, d)
      : s \in AfterLoginPages, land \in LandedPages, arrive \in {1, 2, PollRounds + 1},
        d \in LandedPages }

\* the step is a call of the stage function during which a driver call threw
C32_UsernameThrew ==
    /\ pc \in {"enterUsername", "enterUsernameRetry"}
    /\ Result(usernameEntered', ops')
          \notin C32_UsernameBodies[IF pc = "enterUsername" THEN credentials.username
                                    ELSE newCredentials.username]
C32_PasswordThrew ==
    /\ pc \in {"usernameLoop", "enterPasswordRetry"} /\ pc' = "passwordLoop"
    /\ Result(passwordEntered', ops')
          \notin C32_PasswordBodies[IF pc = "usernameLoop" THEN credentials.password
                                    ELSE newPassword]
C32_OtpThrew ==
    /\ pc = "submitMFACode"
    /\ Result(otpSuccess', ops') \notin C32_OtpBodies[otpCode]
C32_MfaThrew ==
    /\ pc = "passwordLoop" /\ pc' \in {"otpLoop", "finalCheck"}
    /\ Result(otpRequired', ops') \notin C32_MfaBodies
C32_NavThrew ==
    /\ pc = "main" /\ scrapeCalled'
    /\ NavResult(pc' = "yearLoop", ops', url') \notin C32_NavBodies
C32_YearThrew ==
    /\ pc = "yearLoop" /\ Len(navs') > Len(navs)
    /\ \A d \in YearPages : Result(pc' = "extractOrders", ops') # selectOrderYearBody(year, d)
C32_ExtractThrew ==
    /\ pc \in {"extractDirectly", "extractOrders"}
    /\ ops' = << Op("evaluate", "", "threw") >>

\* a call of a stage function returns to the statement after it: nothing
\* reaches the catch block of handleLogin or of main
C32_ReturnsToCaller ==
    /\ (pc \in {"enterUsername", "enterUsernameRetry"}) => pc' = "usernameLoop"
    /\ (pc \in {"usernameLoop", "enterPasswordRetry"} /\ submitted'.password > submitted.password)
       => pc' = "passwordLoop"
    /\ (pc = "submitMFACode") => pc' = "otpLoop"
    /\ (pc = "passwordLoop" /\ passwordEntered) => pc' \in {"otpLoop", "finalCheck"}
    /\ (pc = "main" /\ scrapeCalled') => pc' \in {"yearLoop", "notNavigated"}
    /\ (pc = "yearLoop" /\ Len(navs') > Len(navs)) => pc' \in {"extractOrders", "yearLoop"}
    /\ (pc = "extractDirectly") => pc' = "output"
    /\ (pc = "extractOrders") => pc' = "yearLoop"
    /\ (\/ pc \in {"enterUsername", "enterUsernameRetry", "enterPasswordRetry", "submitMFACode",
                   "extractDirectly", "extractOrders"}
        \/ submitted'.password > submitted.password
        \/ pc = "passwordLoop" /\ passwordEntered
        \/ pc = "main" /\ scrapeCalled'
        \/ Len(navs') > Len(navs))
       => (uncaught' = uncaught /\ exitCode' = exitCode /\ loginResult' = loginResult)

\* a failure of a login stage is counted against the attempts of the stage:
\* the username and the password stage ask again with one attempt less or end
\* the login when none is left, the code stage has one attempt less at once
C32_CountedAgainstBudget ==
    /\ (pc = "usernameLoop" /\ ~usernameEntered
        /\ \A u \in Identifiers : Result(usernameEntered, ops) \notin C32_UsernameBodies[u])
       => \/ usernameAttempts > 1 /\ usernameAttempts' = usernameAttempts - 1
          \/ usernameAttempts = 1 /\ exhausted' = "username" /\ loginResult' = "null"
    /\ (pc = "passwordLoop" /\ ~passwordEntered
        /\ \A p \in Passwords \ {""} : Result(passwordEntered, ops) \notin C32_PasswordBodies[p])
       => \/ passwordAttempts > 1 /\ passwordAttempts' = passwordAttempts - 1
          \/ passwordAttempts = 1 /\ exhausted' = "password" /\ loginResult' = "null"
    /\ C32_OtpThrew => otpAttempts' = otpAttempts - 1

\* C32 (as stated): a driver exception raised inside enterUsername,
\* enterPassword, isMFARequired, submitMFACode, navigateToOrderHistory,
\* selectOrderYear or extractOrders is caught inside that function and makes
\* it return its failure value (false, or the empty list for extractOrders);
\* none of them throws to its caller; and in the login stages the failure is
\* counted against the attempts of the stage.
C32_ExceptionMeansFailure ==
    [][ /\ C32_UsernameThrew => ~usernameEntered'
        /\ C32_PasswordThrew => ~passwordEntered'
        /\ C32_OtpThrew => ~otpSuccess'
        /\ C32_MfaThrew => ~otpRequired'
        /\ C32_NavThrew => pc' = "notNavigated"
        /\ C32_YearThrew => pc' = "yearLoop"
        /\ C32_ExtractThrew => extracted' = <<>>
        /\ C32_ReturnsToCaller
        /\ C32_CountedAgainstBudget ]_vars

\* the navigation check of enterPassword threw, and the look for the home
\* page in its own catch block found the logo or the navigation bar
C32_HomePageSeen ==
    /\ \E i \in 1..Len(ops') : ops'[i] = Op("race", "", "rejected")
    /\ ops'[Len(ops')] = Op("isVisible", "#nav-logo, #navbar", "true")

\* the polling of navigateToOrderHistory threw, and the address read in its
\* own catch block is one of an orders page
C32_OrdersAddressSeen ==
    /\ ops'[Len(ops')] = Op("screenshot", "orders-page-error.png", "")
    /\ OrderUrlLikely(url')

\* C32 (amended): a driver exception raised inside one of the seven stage
\* functions never reaches the caller, and it makes the function return its
\* failure value (false, or the empty list for extractOrders), with two
\* exceptions: when the navigation check of enterPassword throws, enterPassword
\* returns true exactly if the home page logo or navigation bar is visible,
\* and when the polling of navigateToOrderHistory throws, it returns true only
\* if the address is one of an orders page.  In the login stages a failure by
\* exception is counted against the attempts of the stage.
C32_ExceptionCaughtInside ==
    [][ /\ C32_UsernameThrew => ~usernameEntered'
        /\ C32_PasswordThrew => (passwordEntered' <=> C32_HomePageSeen)
        /\ C32_OtpThrew => ~otpSuccess'
        /\ C32_MfaThrew => ~otpRequired'
        /\ C32_NavThrew => (pc' = "notNavigated" \/ C32_OrdersAddressSeen)
        /\ C32_YearThrew => pc' = "yearLoop"
        /\ C32_ExtractThrew => extracted' = <<>>
        /\ C32_ReturnsToCaller
        /\ C32_CountedAgainstBudget ]_vars

\* the first driver call of submitMFACode threw: the call has failed and one
\* of the three attempts is gone
C32_Witness ==
    /\ pc = "otpLoop"
    /\ ops = << Op("screenshot", "otp-page.png", "") >>
    /\ ~otpSuccess
    /\ otpAttempts = OtpAttempts - 1

\* C33: no driver call is issued once the browser has been closed: the close
\* is the last driver call of the step that makes it, it is made with the
\* browser open, and every later step of the run makes no driver call.
C33_CloseIsLast ==
    [][ /\ (browser = "closed") => ops' = <<>>
        /\ \A i \in 1..Len(ops') :
              (ops'[i][1] = "close") => (i = Len(ops') /\ browser = "open" /\ browser' = "closed")
        /\ (browser' = "closed" /\ browser # "closed")
           => (Len(ops') > 0 /\ ops'[Len(ops')] = Op("close", "browser", "")) ]_vars

\* handleLogin closed the browser and returned null after the username was
\* submitted, and main has ended the process since without a driver call
C33_Witness ==
    /\ browser = "closed"
    /\ pc = "exited"
    /\ exitCode = "1"
    /\ ~uncaught
    /\ exhausted = "none"
    /\ submitted.username > 0
    /\ ops = <<>>

\* C34: the accumulator only grows by appending (what it holds stays where
\* it is, unchanged, while later years are harvested, and each year's
\* extraction result is appended whole), the years are visited in descending
\* order, and the list handed to the result sink is the first 10 records of
\* the accumulator, or all of them when there are fewer.
C34_AppendOnlyThenCut ==
    [][ /\ Len(ordersCollected') >= Len(ordersCollected)
        /\ SubSeq(ordersCollected', 1, Len(ordersCollected)) = ordersCollected
        /\ (pc = "extractOrders") => ordersCollected' = ordersCollected \o extracted'
        /\ \A i, j \in 1..Len(navs') : (i < j) => navs'[i] > navs'[j]
        /\ (pc' = "output" /\ pc # "output")
           => (/\ Len(orders') = (IF Len(ordersCollected') < 10 THEN Len(ordersCollected') ELSE 10)
               /\ \A i \in 1..Len(orders') : orders'[i] = ordersCollected'[i]) ]_vars

\* the product names of the items the last call of extractOrders returned for
\* the card at position k of the page (the record is found by its order date,
\* which no two cards of a page share); none when the card has no record
C35_NamesYielded(k) ==
    LET shownDate == IF cards[k].date # "" THEN trim(cards[k].date) ELSE "N/A"
        recs == { j \in 1..Len(extracted) : extracted[j].orderDate = shownDate }
    IN  IF recs = {} THEN <<>>
        ELSE LET rec == extracted[CHOOSE j \in recs : TRUE]
             IN  [i \in 1..Len(rec.items) |-> rec.items[i].productName]

\* the element is there and has text: the pattern matches
C35_Matches(e) == e.present /\ e.text # ""

\* ... and its text is more than blanks
C35_Titled(e) == C35_Matches(e) /\ trim(e.text) # ""

C35_NamesOf(es) == [i \in 1..Len(es) |-> trim(es[i].text)]

\* C35 (as stated): for each order card, extraction yields one item per
\* delivery sub-group when the card has delivery sub-groups, and otherwise a
\* single item, taken from the standard product-title pattern if it matches
\* and from the digital/media-title pattern only if the standard one does not
\* (no item when neither matches).
C35_OneItemPerSubGroup ==
    scriptRan
    => \A k \in 1..Len(cards) :
          cards[k].group
          => C35_NamesYielded(k) =
                (IF Len(cards[k].boxes) > 0 THEN C35_NamesOf(cards[k].boxes)
                 ELSE IF C35_Matches(cards[k].title) THEN C35_NamesOf(<< cards[k].title >>)
                 ELSE IF C35_Matches(cards[k].movie) THEN C35_NamesOf(<< cards[k].movie >>)
                 ELSE <<>>)

\* C35 (amended): for each order card, extraction yields one item for each
\* delivery sub-group whose product title is found with a name that is not
\* blank, in document order, when the card has delivery sub-groups; otherwise
\* at most a single item, taken from the standard product-title pattern if
\* it matches and from the digital/media-title pattern only if the standard
\* one does not, and no item when the name so found is blank.
C35_OneItemPerTitledSubGroup ==
    scriptRan
    => \A k \in 1..Len(cards) :
          cards[k].group
          => C35_NamesYielded(k) =
                (IF Len(cards[k].boxes) > 0
                 THEN C35_NamesOf(SelectSeq(cards[k].boxes, C35_Titled))
                 ELSE IF C35_Matches(cards[k].title)
                 THEN C35_NamesOf(SelectSeq(<< cards[k].title >>, C35_Titled))
                 ELSE C35_NamesOf(SelectSeq(<< cards[k].movie >>, C35_Titled)))

\* a page was extracted that shows a card with three delivery sub-groups of
\* which two have a product title, a card with a digital title only, and a
\* card whose standard title is blank
C35_Witness ==
    /\ pc = "yearLoop"
    /\ scriptRan
    /\ \E k \in 1..Len(cards) :
          /\ cards[k].group
          /\ Len(cards[k].boxes) = 3
          /\ Len(C35_NamesYielded(k)) = 2
    /\ \E k \in 1..Len(cards) :
          /\ cards[k].group /\ cards[k].boxes = <<>>
          /\ ~C35_Matches(cards[k].title)
          /\ Len(C35_NamesYielded(k)) = 1
    /\ \E k \in 1..Len(cards) :
          /\ cards[k].group /\ cards[k].boxes = <<>>
          /\ C35_Matches(cards[k].title) /\ C35_Matches(cards[k].movie)
          /\ C35_NamesYielded(k) = <<>>

\* the address names its scheme and host itself
C36_IsAbsolute(address) == startsWith(address, "https://") \/ startsWith(address, "http://")

\* the title links of a card: those of its delivery sub-groups, its standard
\* product title and its digital title
C36_LinksOf(card) ==
    { card.boxes[b] : b \in 1..Len(card.boxes) } \cup { card.title, card.movie }

\* C36: every item link in every record extractOrders returns is an absolute
\* URL: it is the href of the title link the item was read from, unchanged
\* when that href is absolute already, and with the base origin of the site
\* put in front of it when it is relative.
C36_LinksAreAbsolute ==
    scriptRan
    => \A j \in 1..Len(extracted) : \A i \in 1..Len(extracted[j].items) :
          LET item == extracted[j].items[i]
          IN  /\ C36_IsAbsolute(item.link)
              /\ \E k \in 1..Len(cards) : \E e \in C36_LinksOf(cards[k]) :
                    /\ e.present
                    /\ trim(e.text) = item.productName
                    /\ IF C36_IsAbsolute(e.href) THEN item.link = e.href
                       ELSE item.link = "https://www.amazon.in" \o e.href

\* a page was extracted with an item whose link was relative and one whose
\* link was absolute already
C36_Witness ==
    /\ pc = "yearLoop"
    /\ scriptRan
    /\ \E j \in 1..Len(extracted) : \E i \in 1..Len(extracted[j].items) :
          startsWith(extracted[j].items[i].link, "https://www.amazon.in/dp/")
    /\ \E j \in 1..Len(extracted) : \E i \in 1..Len(extracted[j].items) :
          ~startsWith(extracted[j].items[i].link, "https://www.amazon.in")

\* C37: while verification-code attempts remain, an empty answer to the code
\* prompt does not end the login: handleLogin returns null from the
\* second-factor stage only when no attempt is left, after 3 codes were
\* handed to submitMFACode and none of them was accepted.
C37_EmptyCodeDoesNotEndLogin ==
    [][ (pc = "otpLoop" /\ ~otpSuccess /\ loginResult' = "null")
        => (otpAttempts = 0 /\ submitted.otp = 3 /\ ~secondFactor) ]_vars

====
